---- MODULE Spec2Model ----
(***************************************************************************)
(* A model of the PCCC client of plcio: the data-table address parser, the  *)
(* value decoder, the batch planner of PCCCAdapter.Read, the bit write of   *)
(* Client.writeBit and the transaction counter of PLC.                      *)
(*                                                                          *)
(* Texts are sequences of one-character strings, bytes are 0..255, and a    *)
(* 16-bit word is 0..65535.                                                 *)
(***************************************************************************)
EXTENDS Integers, Sequences, FiniteSets, TLC

\* ------------------------------------------------------------------------
\* Bytes, words and bits
\* ------------------------------------------------------------------------

Word16 == 65536

\* (word >> b) & 1
BitOf(word, b) == (word \div (2 ^ b)) % 2

\* word |= 1 << b
OrBit(word, b) == IF BitOf(word, b) = 1 THEN word ELSE word + (2 ^ b)

\* word &^= 1 << b
AndNotBit(word, b) == IF BitOf(word, b) = 1 THEN word - (2 ^ b) ELSE word

\* binary.LittleEndian.Uint16(data[:2])
LEUint16(data) == data[1] + 256 * data[2]

\* binary.LittleEndian.AppendUint16(nil, word)
LEBytes16(word) == << word % 256, (word \div 256) % 256 >>

\* int16(u): the two's complement reading of a 16-bit word
Int16(u) == IF u >= 32768 THEN u - 65536 ELSE u

\* ------------------------------------------------------------------------
\* File types and element sizes (pccc/types.go)
\* ------------------------------------------------------------------------

FileTypeOutput == 130
FileTypeInput == 131
FileTypeStatus == 132
FileTypeBinary == 133
FileTypeTimer == 134
FileTypeCounter == 135
FileTypeControl == 136
FileTypeInteger == 137
FileTypeFloat == 138
FileTypeString == 141
FileTypeASCII == 142
FileTypeLong == 145
FileTypeMessage == 146
FileTypePID == 147

SubElementSize == 2

ElementSize(fileType) ==
    CASE fileType = FileTypeOutput -> 2
      [] fileType = FileTypeInput -> 2
      [] fileType = FileTypeStatus -> 2
      [] fileType = FileTypeBinary -> 2
      [] fileType = FileTypeTimer -> 6
      [] fileType = FileTypeCounter -> 6
      [] fileType = FileTypeControl -> 6
      [] fileType = FileTypeInteger -> 2
      [] fileType = FileTypeFloat -> 4
      [] fileType = FileTypeString -> 84
      [] fileType = FileTypeASCII -> 2
      [] fileType = FileTypeLong -> 4
      [] fileType = FileTypeMessage -> 50
      [] fileType = FileTypePID -> 46
      [] OTHER -> 2

IsComplexType(fileType) ==
    fileType = FileTypeTimer \/ fileType = FileTypeCounter \/ fileType = FileTypeControl

\* ------------------------------------------------------------------------
\* Text helpers: strings.Index, strings.ToUpper, strconv.Atoi, ParseUint
\* ------------------------------------------------------------------------

DigitChars == << "0", "1", "2", "3", "4", "5", "6", "7", "8", "9" >>

LowerChars == << "a", "b", "c", "d", "e", "f", "g", "h", "i", "j", "k", "l", "m",
                 "n", "o", "p", "q", "r", "s", "t", "u", "v", "w", "x", "y", "z" >>

UpperChars == << "A", "B", "C", "D", "E", "F", "G", "H", "I", "J", "K", "L", "M",
                 "N", "O", "P", "Q", "R", "S", "T", "U", "V", "W", "X", "Y", "Z" >>

IsDigit(c) == \E i \in 1..10 : DigitChars[i] = c

DigitVal(c) == (CHOOSE i \in 1..10 : DigitChars[i] = c) - 1

UpperChar(c) ==
    IF \E i \in 1..26 : LowerChars[i] = c
    THEN UpperChars[CHOOSE i \in 1..26 : LowerChars[i] = c]
    ELSE c

\* strings.ToUpper
ToUpper(s) == [i \in 1..Len(s) |-> UpperChar(s[i])]

\* strings.Index(s, c) for a one-character c: 0-based, -1 when absent
IndexOf(s, c) ==
    IF \E i \in 1..Len(s) : s[i] = c
    THEN (CHOOSE i \in 1..Len(s) : s[i] = c /\ \A j \in 1..(i - 1) : s[j] # c) - 1
    ELSE -1

\* s[from:] with a 0-based from
From(s, from) == SubSeq(s, from + 1, Len(s))

\* s[:to] with a 0-based, exclusive to
UpTo(s, to) == SubSeq(s, 1, to)

AllDigits(s) == Len(s) > 0 /\ \A i \in 1..Len(s) : IsDigit(s[i])

RECURSIVE DecVal(_)
DecVal(s) ==
    IF Len(s) = 0 THEN 0
    ELSE DecVal(SubSeq(s, 1, Len(s) - 1)) * 10 + DigitVal(s[Len(s)])

\* The longest numeral the model reads: Go reads an int (64 bits), the model
\* checker's integers have 32, so a longer numeral is outside the model.
MaxNumeral == 9

\* strconv.Atoi: an optional sign, then decimal digits
Atoi(s) ==
    IF Len(s) = 0 THEN [ok |-> FALSE, n |-> 0]
    ELSE LET signed == s[1] = "+" \/ s[1] = "-"
             body == IF signed THEN Tail(s) ELSE s
         IN IF ~AllDigits(body) \/ Len(body) > MaxNumeral
            THEN [ok |-> FALSE, n |-> 0]
            ELSE [ok |-> TRUE,
                  n |-> IF s[1] = "-" THEN 0 - DecVal(body) ELSE DecVal(body)]

\* strconv.ParseUint(s, 10, 16): digits only, at most 65535
ParseUint16(s) ==
    IF ~AllDigits(s) \/ Len(s) > MaxNumeral THEN [ok |-> FALSE, n |-> 0]
    ELSE IF DecVal(s) > 65535 THEN [ok |-> FALSE, n |-> 0]
    ELSE [ok |-> TRUE, n |-> DecVal(s)]

\* fmt's %d of a natural number
RECURSIVE Dec(_)
Dec(n) == IF n < 10 THEN << DigitChars[n + 1] >>
          ELSE Dec(n \div 10) \o << DigitChars[(n % 10) + 1] >>

\* ------------------------------------------------------------------------
\* The address parser (ParseAddress and its helpers)
\* ------------------------------------------------------------------------

TimerBitEN == 15
TimerBitTT == 14
TimerBitDN == 13
CounterBitCU == 15
CounterBitCD == 14
CounterBitDN == 13
CounterBitOV == 12
CounterBitUN == 11
ControlBitEN == 15
ControlBitEU == 14
ControlBitDN == 13
ControlBitEM == 12
ControlBitER == 11
ControlBitUL == 10
ControlBitIN == 9
ControlBitFD == 8

\* A parse result: ok with the FileAddress fields, or an error (Go's nil, err).
NoAddress == [ok |-> FALSE, FileType |-> 0, FileNumber |-> 0, Element |-> 0,
              SubElement |-> 0, BitNumber |-> -1, TypeLetter |-> << >>,
              RawAddress |-> << >>]

\* parseFileSpec: the type letter(s) and the optional file number (-1: none)
parseFileSpec(spec) ==
    IF Len(spec) = 0 THEN [ok |-> FALSE, typeLetter |-> << >>, fileNum |-> -1]
    ELSE IF Len(spec) >= 2
            /\ ToUpper(UpTo(spec, 2)) \in { <<"S", "T">>, <<"M", "G">>, <<"P", "D">> }
    THEN LET prefix == ToUpper(UpTo(spec, 2))
             numStr == From(spec, 2)
         IN IF numStr = << >> THEN [ok |-> TRUE, typeLetter |-> prefix, fileNum |-> -1]
            ELSE IF ~Atoi(numStr).ok
            THEN [ok |-> FALSE, typeLetter |-> << >>, fileNum |-> -1]
            ELSE [ok |-> TRUE, typeLetter |-> prefix, fileNum |-> Atoi(numStr).n]
    ELSE LET prefix == ToUpper(UpTo(spec, 1))
             numStr == From(spec, 1)
         IN IF prefix[1] \notin {"O", "I", "S", "B", "T", "C", "R", "N", "F", "A", "L"}
            THEN [ok |-> FALSE, typeLetter |-> << >>, fileNum |-> -1]
            ELSE IF numStr = << >>
            THEN [ok |-> TRUE, typeLetter |-> prefix, fileNum |-> -1]
            ELSE IF ~Atoi(numStr).ok
            THEN [ok |-> FALSE, typeLetter |-> << >>, fileNum |-> -1]
            ELSE [ok |-> TRUE, typeLetter |-> prefix, fileNum |-> Atoi(numStr).n]

\* lookupFileType: the file type code and the default file number (-1: none)
lookupFileType(typeLetter) ==
    CASE typeLetter = <<"O">> -> [ok |-> TRUE, fileType |-> FileTypeOutput, def |-> 0]
      [] typeLetter = <<"I">> -> [ok |-> TRUE, fileType |-> FileTypeInput, def |-> 1]
      [] typeLetter = <<"S">> -> [ok |-> TRUE, fileType |-> FileTypeStatus, def |-> 2]
      [] typeLetter = <<"B">> -> [ok |-> TRUE, fileType |-> FileTypeBinary, def |-> -1]
      [] typeLetter = <<"T">> -> [ok |-> TRUE, fileType |-> FileTypeTimer, def |-> -1]
      [] typeLetter = <<"C">> -> [ok |-> TRUE, fileType |-> FileTypeCounter, def |-> -1]
      [] typeLetter = <<"R">> -> [ok |-> TRUE, fileType |-> FileTypeControl, def |-> -1]
      [] typeLetter = <<"N">> -> [ok |-> TRUE, fileType |-> FileTypeInteger, def |-> -1]
      [] typeLetter = <<"F">> -> [ok |-> TRUE, fileType |-> FileTypeFloat, def |-> -1]
      [] typeLetter = <<"A">> -> [ok |-> TRUE, fileType |-> FileTypeASCII, def |-> -1]
      [] typeLetter = <<"L">> -> [ok |-> TRUE, fileType |-> FileTypeLong, def |-> -1]
      [] typeLetter = <<"S", "T">> -> [ok |-> TRUE, fileType |-> FileTypeString, def |-> -1]
      [] typeLetter = <<"M", "G">> -> [ok |-> TRUE, fileType |-> FileTypeMessage, def |-> -1]
      [] typeLetter = <<"P", "D">> -> [ok |-> TRUE, fileType |-> FileTypePID, def |-> -1]
      [] OTHER -> [ok |-> FALSE, fileType |-> 0, def |-> -1]

\* A named sub-element: the sub-element index and the bit it selects (-1: none).
SubName(sub, bit) == [ok |-> TRUE, sub |-> sub, bit |-> bit]

NumericSub(name) ==
    IF ParseUint16(name).ok THEN SubName(ParseUint16(name).n, -1)
    ELSE [ok |-> FALSE, sub |-> 0, bit |-> -1]

\* A timer parser that takes any name, as the status word
TimerNameUnchecked(name) ==
    IF ParseUint16(name).ok THEN SubName(ParseUint16(name).n, -1) ELSE SubName(0, -1)

parseTimerSubElement(name) ==
    CASE name = <<"P", "R", "E">> -> SubName(1, -1)
      [] name = <<"A", "C", "C">> -> SubName(2, -1)
      [] name = <<"E", "N">> -> SubName(0, TimerBitEN)
      [] name = <<"T", "T">> -> SubName(0, TimerBitTT)
      [] name = <<"D", "N">> -> SubName(0, TimerBitDN)
      [] OTHER -> NumericSub(name)

parseCounterSubElement(name) ==
    CASE name = <<"P", "R", "E">> -> SubName(1, -1)
      [] name = <<"A", "C", "C">> -> SubName(2, -1)
      [] name = <<"C", "U">> -> SubName(0, CounterBitCU)
      [] name = <<"C", "D">> -> SubName(0, CounterBitCD)
      [] name = <<"D", "N">> -> SubName(0, CounterBitDN)
      [] name = <<"O", "V">> -> SubName(0, CounterBitOV)
      [] name = <<"U", "N">> -> SubName(0, CounterBitUN)
      [] OTHER -> NumericSub(name)

parseControlSubElement(name) ==
    CASE name = <<"L", "E", "N">> -> SubName(1, -1)
      [] name = <<"P", "O", "S">> -> SubName(2, -1)
      [] name = <<"E", "N">> -> SubName(0, ControlBitEN)
      [] name = <<"E", "U">> -> SubName(0, ControlBitEU)
      [] name = <<"D", "N">> -> SubName(0, ControlBitDN)
      [] name = <<"E", "M">> -> SubName(0, ControlBitEM)
      [] name = <<"E", "R">> -> SubName(0, ControlBitER)
      [] name = <<"U", "L">> -> SubName(0, ControlBitUL)
      [] name = <<"I", "N">> -> SubName(0, ControlBitIN)
      [] name = <<"F", "D">> -> SubName(0, ControlBitFD)
      [] OTHER -> NumericSub(name)

\* parseSubElement: the name is upper-cased, then resolved by file type
parseSubElement(name, fileType) ==
    CASE fileType = FileTypeTimer -> parseTimerSubElement(ToUpper(name))
      [] fileType = FileTypeCounter -> parseCounterSubElement(ToUpper(name))
      [] fileType = FileTypeControl -> parseControlSubElement(ToUpper(name))
      [] OTHER -> NumericSub(ToUpper(name))

\* A bit range that takes 16
BitThrough16(bit) == ~(bit < 0 \/ bit > 16)

\* The bit index a '/bit' suffix may carry
BitInRange(bit) == ~(bit < 0 \/ bit > 15)

\* parseElementAndModifiers: Element[/Bit][.SubElement], filled into result
parseElementAndModifiers(remainder, result) ==
    IF IndexOf(remainder, "/") >= 0
    THEN LET slashIdx == IndexOf(remainder, "/")
             elem == ParseUint16(UpTo(remainder, slashIdx))
             bit == Atoi(From(remainder, slashIdx + 1))
         IN IF ~elem.ok THEN NoAddress
            ELSE IF ~bit.ok THEN NoAddress
            ELSE IF ~BitInRange(bit.n) THEN NoAddress
            ELSE [result EXCEPT !.Element = elem.n, !.BitNumber = bit.n]
    ELSE IF IndexOf(remainder, ".") >= 0
    THEN LET dotIdx == IndexOf(remainder, ".")
             elem == ParseUint16(UpTo(remainder, dotIdx))
             sub == parseSubElement(From(remainder, dotIdx + 1), result.FileType)
         IN IF ~elem.ok THEN NoAddress
            ELSE IF ~sub.ok THEN NoAddress
            ELSE [result EXCEPT !.Element = elem.n, !.SubElement = sub.sub,
                                !.BitNumber = sub.bit]
    ELSE LET elem == ParseUint16(remainder)
         IN IF ~elem.ok THEN NoAddress
            ELSE [result EXCEPT !.Element = elem.n]

\* ParseAddress: a textual data-table address to a FileAddress
ParseAddress(addr) ==
    IF addr = << >> THEN NoAddress
    ELSE IF IndexOf(addr, ":") < 0 THEN NoAddress
    ELSE LET colonIdx == IndexOf(addr, ":")
             fs == parseFileSpec(UpTo(addr, colonIdx))
             remainder == From(addr, colonIdx + 1)
             ft == lookupFileType(fs.typeLetter)
         IN IF ~fs.ok THEN NoAddress
            ELSE IF ~ft.ok THEN NoAddress
            ELSE IF fs.fileNum < 0 /\ ft.def < 0 THEN NoAddress
            ELSE IF remainder = << >> THEN NoAddress
            ELSE parseElementAndModifiers(remainder,
                    [ok |-> TRUE, FileType |-> ft.fileType,
                     FileNumber |-> IF fs.fileNum >= 0 THEN fs.fileNum % Word16
                                    ELSE ft.def,
                     Element |-> 0, SubElement |-> 0, BitNumber |-> -1,
                     TypeLetter |-> fs.typeLetter, RawAddress |-> addr])

\* FileAddress.ReadSize: the bytes to request for the address
ReadSize(a) ==
    IF a.BitNumber >= 0 THEN SubElementSize
    ELSE IF IsComplexType(a.FileType)
    THEN IF a.SubElement > 0 THEN SubElementSize ELSE ElementSize(a.FileType)
    ELSE ElementSize(a.FileType)

\* ------------------------------------------------------------------------
\* The decoder (decodeValue, decodeComplexElement)
\* ------------------------------------------------------------------------

\* Decoded values, tagged with their Go type.
NilValue == [k |-> "nil"]
BoolValue(b) == [k |-> "bool", v |-> b]
Int16Value(n) == [k |-> "int16", v |-> n]
Int32Value(n) == [k |-> "int32", v |-> n]
\* a float32 is kept as its bit pattern, the four bytes in wire order
Float32Value(bits) == [k |-> "float32", bits |-> bits]
BytesValue(data) == [k |-> "bytes", v |-> data]
StringValue(chars) == [k |-> "string", v |-> chars]
MapValue(m) == [k |-> "map", m |-> m]

\* int32(binary.LittleEndian.Uint32(data[:4]))
LEInt32(data) ==
    data[1] + 256 * data[2] + 65536 * data[3]
        + 16777216 * (IF data[4] >= 128 THEN data[4] - 256 ELSE data[4])

Min(a, b) == IF a < b THEN a ELSE b

\* The key a word of a complex element is stored under, and the control bits.
ComplexWordKeys(fileType) ==
    IF fileType = FileTypeControl THEN << "LEN", "POS" >> ELSE << "PRE", "ACC" >>

ComplexBitPairs(fileType) ==
    CASE fileType = FileTypeTimer ->
            { <<"EN", TimerBitEN>>, <<"TT", TimerBitTT>>, <<"DN", TimerBitDN>> }
      [] fileType = FileTypeCounter ->
            { <<"CU", CounterBitCU>>, <<"CD", CounterBitCD>>, <<"DN", CounterBitDN>>,
              <<"OV", CounterBitOV>>, <<"UN", CounterBitUN>> }
      [] fileType = FileTypeControl ->
            { <<"EN", ControlBitEN>>, <<"EU", ControlBitEU>>, <<"DN", ControlBitDN>>,
              <<"EM", ControlBitEM>>, <<"ER", ControlBitER>>, <<"UL", ControlBitUL>>,
              <<"IN", ControlBitIN>>, <<"FD", ControlBitFD>> }
      [] OTHER -> {}

ComplexBits(fileType) ==
    [key \in {p[1] : p \in ComplexBitPairs(fileType)} |->
        (CHOOSE p \in ComplexBitPairs(fileType) : p[1] = key)[2]]

\* decodeComplexElement: the map of a full Timer, Counter or Control element
decodeComplexElement(fileType, data) ==
    IF Len(data) < 2 THEN << >>
    ELSE LET controlWord == LEUint16(SubSeq(data, 1, 2))
             bits == ComplexBits(fileType)
             words == ComplexWordKeys(fileType)
             keys == DOMAIN bits
                       \cup (IF Len(data) >= 4 THEN {words[1]} ELSE {})
                       \cup (IF Len(data) >= 6 THEN {words[2]} ELSE {})
         IN [key \in keys |->
                IF key \in DOMAIN bits
                THEN BoolValue(BitOf(controlWord, bits[key]) # 0)
                ELSE IF key = words[1]
                THEN Int16Value(Int16(LEUint16(SubSeq(data, 3, 4))))
                ELSE Int16Value(Int16(LEUint16(SubSeq(data, 5, 6))))]

\* decodeValue: raw PLC bytes to a value, by the address's type
decodeValue(addr, data) ==
    IF Len(data) = 0 THEN NilValue
    ELSE IF addr.BitNumber >= 0 /\ Len(data) >= 2
    THEN BoolValue(BitOf(LEUint16(SubSeq(data, 1, 2)), addr.BitNumber) # 0)
    ELSE CASE addr.FileType \in {FileTypeInteger, FileTypeOutput, FileTypeInput,
                                 FileTypeStatus, FileTypeBinary, FileTypeASCII} ->
                IF Len(data) < 2 THEN BytesValue(data)
                ELSE Int16Value(Int16(LEUint16(SubSeq(data, 1, 2))))
           [] addr.FileType = FileTypeFloat ->
                IF Len(data) < 4 THEN BytesValue(data)
                ELSE Float32Value(SubSeq(data, 1, 4))
           [] addr.FileType = FileTypeLong ->
                IF Len(data) < 4 THEN BytesValue(data)
                ELSE Int32Value(LEInt32(SubSeq(data, 1, 4)))
           [] IsComplexType(addr.FileType) ->
                IF addr.SubElement > 0 /\ Len(data) >= 2
                THEN Int16Value(Int16(LEUint16(SubSeq(data, 1, 2))))
                ELSE MapValue(decodeComplexElement(addr.FileType, data))
           [] addr.FileType = FileTypeString ->
                IF Len(data) < 2 THEN BytesValue(data)
                ELSE LET strLen == Min(Min(LEUint16(SubSeq(data, 1, 2)), Len(data) - 2), 82)
                     IN StringValue(SubSeq(data, 3, 2 + strLen))
           [] OTHER -> BytesValue(data)

\* DecodeValue: the exported decoder the driver calls
DecodeValue(addr, data) == decodeValue(addr, data)

\* ------------------------------------------------------------------------
\* The batch planner's pure steps (PCCCAdapter.Read, pcccContiguousRuns)
\* ------------------------------------------------------------------------

maxPCCCReadBytes == 236

\* parsed[i].bulkable
Bulkable(p) == p.ok /\ p.SubElement = 0 /\ p.BitNumber < 0

\* groupKey{fileNumber, fileType}
GroupKey(p) == << p.FileNumber, p.FileType >>

\* The keys of the groups map, and the indices of one group
GroupKeys(parsed) == { GroupKey(parsed[i]) : i \in {j \in DOMAIN parsed : Bulkable(parsed[j])} }

GroupIndices(parsed, key) ==
    { i \in DOMAIN parsed : Bulkable(parsed[i]) /\ GroupKey(parsed[i]) = key }

\* less(i, j) of the sort: by element number; t orders equal element numbers
SortLess(parsed, t, i, j) ==
    \/ parsed[i].Element < parsed[j].Element
    \/ parsed[i].Element = parsed[j].Element /\ t[i] < t[j]

\* sort.Slice by element number: the sort is not stable, so requests with equal
\* element numbers may come out in any order.
SortedOrders(S, parsed) ==
    LET tied == { i \in S : \E j \in S \ {i} : parsed[j].Element = parsed[i].Element }
        tieBreaks == { t \in [tied -> 1..Cardinality(tied)] :
                         \A i, j \in tied : i # j => t[i] # t[j] }
        rank(t) == [i \in S |-> Cardinality({ j \in S \ {i} : SortLess(parsed, t, j, i) })]
        order(t) == LET r == rank(t)
                    IN [k \in 1..Cardinality(S) |-> CHOOSE i \in S : r[i] = k - 1]
    IN { order(t) : t \in tieBreaks }

\* A run test that lets an equal element number continue the run
ContinuesOrRepeats(prev, curr) == curr >= prev

\* A run test that lets a run skip one element number
ContinuesOverGap(prev, curr) == curr = prev + 1 \/ curr = prev + 2

\* Whether element number curr continues a run that ends with prev (uint16 sum)
Continues(prev, curr) == curr = (prev + 1) % Word16

\* Position i of the sorted indices goes on the run of position i - 1
Appends(sortedIndices, parsed, i) ==
    Continues(parsed[sortedIndices[i - 1]].Element, parsed[sortedIndices[i]].Element)

\* The loop of pcccContiguousRuns from position i, where a run starts: the run
\* takes the positions after i up to the first that does not go on it
RECURSIVE RunsFrom(_, _, _)
RunsFrom(sortedIndices, parsed, i) ==
    IF i > Len(sortedIndices) THEN << >>
    ELSE LET last == CHOOSE j \in i..Len(sortedIndices) :
                        /\ \A k \in (i + 1)..j : Appends(sortedIndices, parsed, k)
                        /\ j = Len(sortedIndices) \/ ~Appends(sortedIndices, parsed, j + 1)
         IN << SubSeq(sortedIndices, i, last) >> \o RunsFrom(sortedIndices, parsed, last + 1)

pcccContiguousRuns(sortedIndices, parsed) ==
    IF Len(sortedIndices) = 0 THEN << >>
    ELSE RunsFrom(sortedIndices, parsed, 1)

\* A chunk bound rounded up instead of down
MaxCountRoundedUp(fileType) ==
    (maxPCCCReadBytes + ElementSize(fileType) - 1) \div ElementSize(fileType)

\* maxCount := maxPCCCReadBytes / elemSize
MaxCount(fileType) == maxPCCCReadBytes \div ElementSize(fileType)

\* The least number of requests a run or a chunk needs to be read in bulk
MinBulk == 2

\* The chunk loop over one run: the chunks that are read in bulk, in order
RECURSIVE ChunkLoop(_, _, _)
ChunkLoop(run, maxCount, chunkStart) ==
    IF chunkStart >= Len(run) THEN << >>
    ELSE LET chunkEnd == Min(chunkStart + maxCount, Len(run))
             chunk == SubSeq(run, chunkStart + 1, chunkEnd)
         IN (IF Len(chunk) < MinBulk THEN << >> ELSE << chunk >>)
                \o ChunkLoop(run, maxCount, chunkStart + maxCount)

\* The run loop over the runs of one group
RECURSIVE RunLoop(_, _, _)
RunLoop(runs, parsed, r) ==
    IF r > Len(runs) THEN << >>
    ELSE (IF Len(runs[r]) < MinBulk THEN << >>
          ELSE ChunkLoop(runs[r], MaxCount(parsed[runs[r][1]].FileType), 0))
             \o RunLoop(runs, parsed, r + 1)

\* The bulk reads one group leads to, for one outcome of the sort
GroupChunks(sortedIndices, parsed) ==
    IF Len(sortedIndices) < MinBulk THEN << >>
    ELSE RunLoop(pcccContiguousRuns(sortedIndices, parsed), parsed, 1)

\* ReadAddressN: byteCount := count * elemSize
ReadAddressNByteCount(addr, count) == count * ElementSize(addr.FileType)

\* ------------------------------------------------------------------------
\* The PLC the adapter reads from
\* ------------------------------------------------------------------------

\* Byte k (0-based) of an element of a data file. The memory does not change
\* during a Read; distinct elements hold distinct bytes.
PlcByte(fileNumber, fileType, element, k) ==
    (fileNumber * 31 + fileType + element * 7 + k * 3) % 256

\* What a typed read of byteCount bytes at an address returns in full
PlcData(addr, byteCount) ==
    LET elemSize == ElementSize(addr.FileType)
        first == addr.SubElement * SubElementSize
    IN [b \in 1..byteCount |->
            PlcByte(addr.FileNumber, addr.FileType,
                    (addr.Element + ((first + b - 1) \div elemSize)) % Word16,
                    (first + b - 1) % elemSize)]

\* The lengths a truncated reply to a bulk read of byteCount bytes may have
TruncatedLengths(elemSize, byteCount) ==
    { n \in {0, elemSize + 1, byteCount - 1} : n < byteCount }

\* The replies to a bulk read: an error, the data in full, or the data cut short
BulkReplies(addr, byteCount) ==
    { [err |-> TRUE, bytes |-> << >>] }
        \cup { [err |-> FALSE, bytes |-> SubSeq(PlcData(addr, byteCount), 1, n)] :
               n \in {byteCount} \cup TruncatedLengths(ElementSize(addr.FileType), byteCount) }

\* ------------------------------------------------------------------------
\* Inputs of Read: the request lists
\* ------------------------------------------------------------------------

\* The longest request list built freely from the pool of addresses
MaxLen == 3

AddressPool ==
    { <<"N", "7", ":", "0">>, <<"N", "7", ":", "1">>, <<"F", "8", ":", "0">>,
      <<"B", "3", ":", "0", "/", "5">>, <<"T", "4", ":", "0", ".", "A", "C", "C">>,
      <<"N", "7">> }

RECURSIVE ListsUpTo(_)
ListsUpTo(n) ==
    IF n = 0 THEN { << >> }
    ELSE ListsUpTo(n - 1)
            \cup { Append(l, a) : l \in {x \in ListsUpTo(n - 1) : Len(x) = n - 1},
                                  a \in AddressPool }

\* prefix:0 .. prefix:(n-1)
RunOf(prefix, n) == [i \in 1..n |-> prefix \o Dec(i - 1)]

\* Request lists that make a run longer than one bulk read may carry, for each
\* element size, and the lists of the documentation.
ExampleRequests ==
    << <<"N", "7", ":", "0">>, <<"N", "7", ":", "1">>, <<"N", "7", ":", "2">>,
       <<"F", "8", ":", "0">>, <<"B", "3", ":", "0", "/", "5">>,
       <<"T", "4", ":", "0", ".", "A", "C", "C">> >>

Scenarios ==
    { ExampleRequests,
      << <<"N", "7", ":", "0">>, <<"N", "7", ":", "1">>,
         <<"F", "8", ":", "0">>, <<"F", "8", ":", "1">> >>,
      RunOf(<<"S", "T", "9", ":">>, 5),
      RunOf(<<"M", "G", "1", "1", ":">>, 5),
      RunOf(<<"P", "D", "1", "2", ":">>, 6),
      RunOf(<<"T", "4", ":">>, 40),
      RunOf(<<"F", "8", ":">>, 60),
      RunOf(<<"N", "7", ":">>, 119),
      RunOf(<<"N", "7", ":">>, 120) }

RequestLists == ListsUpTo(MaxLen) \cup Scenarios

\* ------------------------------------------------------------------------
\* State
\* ------------------------------------------------------------------------

VARIABLES
    client,         \* PCCCAdapter.client: "nil" or "conn"
    pc,             \* where the Read call stands: idle, groups, single, done
    requests,       \* the request names of the call
    parsed,         \* Read's parsed[]: one parse result per request
    results,        \* Read's results[]
    handled,        \* Read's handled[]
    pending,        \* the keys of the groups map not yet iterated
    chunks,         \* the bulk reads left in the group being iterated
    remainingIdx,   \* Read's remainingIdx[]
    values,         \* the results Client.Read has appended so far
    callErr,        \* the error Read returns ("none": nil)
    wire,           \* the typed reads sent to the PLC by the call, in order
    fills,          \* how many times each results[i] has been assigned
    bulkFilled,     \* the result each bulk read stored, as it was stored
    failedChunk,    \* the requests of the chunks whose bulk read failed
    faults          \* how many replies of the call were errors or cut short

readVars == << client, pc, requests, parsed, results, handled, pending, chunks,
               remainingIdx, values, callErr, wire, fills, bulkFilled, failedChunk,
               faults >>

\* The state of one pccc.Client used by several goroutines, and of the PLC
VARIABLES
    mem,            \* the PLC's data table: the words of each element
    tns,            \* PLC.tns, a uint32 kept as << high 16 bits, low 16 bits >>
    tns0,           \* PLC.tns when the run began
    holder,         \* the goroutine inside EipClient.SendRRData (0: none)
    stream,         \* the requests written to the connection and not yet served
    replies,        \* the replies written by the PLC and not yet read
    gpc,            \* where each goroutine stands: idle, tns, send, recv
    cur,            \* the call each goroutine is in
    calls,          \* how many calls have been started
    sent,           \* the commands written to the connection, in order
    allocs,         \* the numbers nextTNS returned, in order
    returned,       \* the calls that have returned
    crossed         \* whether a goroutine ever took the reply to another's request

clientVars == << mem, tns, tns0, holder, stream, replies, gpc, cur, calls, sent,
                 allocs, returned, crossed >>

\* The sessions of a PCCCAdapter and what its methods returned
VARIABLES
    live,           \* whether the EIP session of a.client is open
    leaked,         \* how many open sessions no Client of the adapter holds
    lastCall        \* the adapter method called last and what it returned

lifeVars == << live, leaked, lastCall >>

\* A pure function applied to an input
VARIABLES
    input,          \* the argument
    output          \* the result, once the function has returned

fnVars == << input, output >>

\* A call of PLC.GetFileDirectory and the PLC it asks
VARIABLES
    plc,            \* the PLC's Diagnostic Status reply and its system file 0
    dpc,            \* where the call stands: idle, lookup, size, chunks, done
    dwire,          \* the requests the call has sent, in order
    dres            \* the locals of the call and what it returns

discVars == << plc, dpc, dwire, dres >>

vars == << readVars, clientVars, lifeVars, fnVars, discVars >>

\* The goroutines that share the Client
Procs == {1, 2}

\* The bit addresses the goroutines write and read
BitTargets ==
    { <<"B", "3", ":", "0", "/", "0">>, <<"B", "3", ":", "0", "/", "1">>,
      <<"T", "4", ":", "0", ".", "D", "N">> }

\* The bit writes of the goroutines: an address and a value (true, false,
\* int16(2), and a string, which writeBit does not take)
BitWrites ==
    { << <<"B", "3", ":", "0", "/", "0">>, BoolValue(TRUE) >>,
      << <<"B", "3", ":", "0", "/", "1">>, BoolValue(FALSE) >>,
      << <<"T", "4", ":", "0", ".", "D", "N">>, Int16Value(2) >>,
      << <<"B", "3", ":", "0", "/", "0">>, StringValue(<<"o", "n">>) >> }

\* The data-table element an address lies in
ElemKey(a) == << a.FileType, a.FileNumber, a.Element >>

Elements == { ElemKey(ParseAddress(t)) : t \in BitTargets }

\* The bits of B3:0 the PLC's own program changes
PlcBits == {7}

\* The first word of every element when the run begins: 1000 0101 1100 0010
StartWords == {34242}

\* PLC.tns when the run begins: a new session, and sessions that have sent
\* 65534 and 2^32 - 2 commands
StartCounters == { <<0, 0>>, <<0, 65534>>, <<65535, 65534>> }

\* A goroutine outside any call
NoCall ==
    [op |-> "none", n |-> 0, addr |-> NoAddress, bitVal |-> FALSE, phase |-> "none",
     tns |-> 0, sentAt |-> 0, data |-> << >>, readWord |-> 0, readServed |-> FALSE,
     plcChanged |-> FALSE, plcBit |-> 0, plcValue |-> FALSE, value |-> NilValue]

\* The Client after pccc.Connect, with the counter at t, over a PLC that holds
\* the elements elems, the first word of each at w
ClientOver(elems, t, w) ==
    /\ mem = [k \in elems |->
                [i \in 1..(ElementSize(k[1]) \div SubElementSize) |->
                    IF i = 1 THEN w ELSE 0]]
    /\ tns = t /\ tns0 = t
    /\ holder = 0 /\ stream = << >> /\ replies = << >>
    /\ gpc = [p \in Procs |-> "idle"]
    /\ cur = [p \in Procs |-> NoCall]
    /\ calls = 0
    /\ sent = << >> /\ allocs = << >> /\ returned = {}
    /\ crossed = FALSE

\* The Client after pccc.Connect, over the PLC of the bit writes
ClientFresh(t, w) == ClientOver(Elements, t, w)

\* results[i] before it is assigned (Go's nil *TagValue)
NilResult == [nil |-> TRUE, Name |-> << >>, DataType |-> 0, Value |-> NilValue,
              Bytes |-> << >>, Count |-> 0, Error |-> "none"]

ErrorResult(name, err) ==
    [nil |-> FALSE, Name |-> name, DataType |-> 0, Value |-> NilValue,
     Bytes |-> << >>, Count |-> 0, Error |-> err]

ValueResult(name, dataType, value, bytes, err) ==
    [nil |-> FALSE, Name |-> name, DataType |-> dataType, Value |-> value,
     Bytes |-> bytes, Count |-> 1, Error |-> err]

\* ------------------------------------------------------------------------
\* PCCCAdapter.Read, step by step (one action per PLC round trip)
\* ------------------------------------------------------------------------

\* a.client == nil
NotConnected(c) == c = "nil"

\* The result Read stores for an address that does not parse
ParseErrorResult(name) == ErrorResult(name, "invalid address")

\* The slicing loop of a bulk reply of got bytes: the number of requests of the
\* chunk that get a result before the loop ends or breaks
SliceLoop(count, elemSize, got) ==
    CHOOSE j \in 0..count :
        /\ j = count \/ j * elemSize + elemSize > got
        /\ \A k \in 0..(j - 1) : k * elemSize + elemSize <= got

\* A bulk read that gives every request of its chunk the first element
BulkResultFromStart(name, addr, chunkAddr, bytes, j) ==
    LET elemBytes == SubSeq(bytes, 1, ElementSize(chunkAddr.FileType))
    IN ValueResult(name, chunkAddr.FileType, DecodeValue(addr, elemBytes), elemBytes, "none")

\* The result a bulk read stores for the j-th (1-based) request of its chunk
BulkResult(name, addr, chunkAddr, bytes, j) ==
    LET elemSize == ElementSize(chunkAddr.FileType)
        offset == (j - 1) * elemSize
        elemBytes == SubSeq(bytes, offset + 1, offset + elemSize)
    IN ValueResult(name, chunkAddr.FileType, DecodeValue(addr, elemBytes), elemBytes, "none")

\* handled[] set for the whole chunk whatever the bulk read gave
HandledWholeChunk(h, chunk, n) ==
    [i \in DOMAIN h |-> h[i] \/ \E j \in 1..Len(chunk) : chunk[j] = i]

\* handled[] after a bulk read gave n requests of the chunk a result
HandledAfterBulk(h, chunk, n) ==
    [i \in DOMAIN h |-> h[i] \/ \E j \in 1..n : chunk[j] = i]

\* Every request handed to Client.Read, handled or not
EveryIdx(h) == [k \in 1..Len(h) |-> k]

\* The requests left for individual reads, in request order
RemainingIdx(h) ==
    LET left == { i \in DOMAIN h : ~h[i] }
    IN [k \in 1..Cardinality(left) |->
            CHOOSE i \in left : Cardinality({ j \in left : j < i }) = k - 1]

\* An entry that drops the error of its address
ErrorDropped(name, err) == ErrorResult(name, "none")

\* Client.Read: the entry appended for an address that fails to parse or to read
ReadErrorValue(name, err) == ErrorResult(name, err)

\* Client.Read: the entry appended for an address that was read
ReadValue(name, addr, bytes) ==
    ValueResult(name, addr.FileType, decodeValue(addr, bytes), bytes, "none")

\* The result Read stores for entry v of Client.Read
IndividualResult(v) ==
    ValueResult(v.Name, v.DataType, v.Value, v.Bytes, v.Error)

\* A typed read as it goes to the PLC; serves: the requests it is for
WireRead(kind, addr, byteCount, serves, outcome) ==
    [kind |-> kind, FileNumber |-> addr.FileNumber, FileType |-> addr.FileType,
     Element |-> addr.Element, SubElement |-> addr.SubElement,
     byteCount |-> byteCount, serves |-> serves, outcome |-> outcome]

IdleCall ==
    /\ requests = << >> /\ parsed = << >> /\ results = << >> /\ handled = << >>
    /\ pending = {} /\ chunks = << >> /\ remainingIdx = << >> /\ values = << >>
    /\ callErr = "none" /\ wire = << >> /\ fills = << >> /\ bulkFilled = << >>
    /\ failedChunk = {} /\ faults = 0

\* No adapter method has been called yet
NoLastCall == [op |-> "none", err |-> "none", connected |-> FALSE]

\* Method op has returned err ("none": nil)
Returned(op, err) == [op |-> op, err |-> err, connected |-> FALSE]

\* GetFileDirectory before it is called
NoDiscovery ==
    [catalog |-> << >>, sys0 |-> [ok |-> FALSE], dirSize |-> 0, offset |-> 0,
     dirData |-> << >>, entries |-> << >>, err |-> "none"]

\* No PLC is asked for its directory
NoPlc == plc = [catalog |-> << >>, rows |-> << >>, sizeDelta |-> 0]

\* No pure function is being applied
NoOutput == [done |-> FALSE]

NoInput == input = << >> /\ output = NoOutput

\* The adapter before Connect, outside any Read
ReadIdle ==
    /\ client = "nil" /\ pc = "idle" /\ IdleCall
    /\ live = FALSE /\ leaked = 0 /\ lastCall = NoLastCall
    /\ dpc = "idle" /\ dwire = << >> /\ dres = NoDiscovery

Init == ReadIdle /\ ClientFresh(<<0, 0>>, 0) /\ NoInput /\ NoPlc

callVars == << requests, parsed, results, handled, pending, chunks, remainingIdx,
               values, callErr, wire, fills, bulkFilled, failedChunk, faults >>

\* The most sessions open at once
MaxSessions == 2

\* The sessions open: the one of a.client and those no Client of the adapter holds
OpenSessions == leaked + (IF live THEN 1 ELSE 0)

\* eip.EipClient.Disconnect: the session is closed afterwards
Disconnect(open) == FALSE

\* PCCCAdapter.Connect: a failed connect (bad connection path, pccc.Connect
\* error) leaves the adapter as it was; a successful one stores the new Client
\* in a.client, whatever a.client held
Connect ==
    /\ pc = "idle"
    /\ \/ /\ lastCall' = Returned("Connect", "pccc connect")
          /\ UNCHANGED << client, live, leaked >>
       \/ /\ OpenSessions < MaxSessions
          /\ client' = "conn"
          /\ live' = TRUE
          /\ leaked' = IF ~NotConnected(client) /\ live THEN leaked + 1 ELSE leaked
          /\ lastCall' = Returned("Connect", "none")
    /\ UNCHANGED << pc, callVars >>
    /\ UNCHANGED << clientVars, fnVars, discVars >>

\* PCCCAdapter.Close
Close ==
    /\ pc = "idle"
    /\ IF ~NotConnected(client)
       THEN live' = Disconnect(live) /\ client' = "nil"
       ELSE UNCHANGED << live, client >>
    /\ lastCall' = Returned("Close", "none")
    /\ UNCHANGED << leaked, pc, callVars >>
    /\ UNCHANGED << clientVars, fnVars, discVars >>

\* Read up to the groups loop: the connection check, the parse of every
\* address, the parse errors, the groups
ReadStart(reqs) ==
    /\ pc = "idle"
    /\ requests' = reqs
    /\ UNCHANGED << client, chunks, remainingIdx, values, wire, failedChunk, faults >>
    /\ IF NotConnected(client)
       THEN /\ callErr' = "not connected"
            /\ pc' = "done"
            /\ UNCHANGED << parsed, results, handled, pending, fills, bulkFilled >>
       ELSE IF Len(reqs) = 0
       THEN /\ pc' = "done"
            /\ UNCHANGED << parsed, results, handled, pending, fills, bulkFilled, callErr >>
       ELSE LET p == [i \in 1..Len(reqs) |-> ParseAddress(reqs[i])]
            IN /\ parsed' = p
               /\ results' = [i \in 1..Len(reqs) |->
                                IF ~p[i].ok THEN ParseErrorResult(reqs[i]) ELSE NilResult]
               /\ handled' = [i \in 1..Len(reqs) |-> ~p[i].ok]
               /\ fills' = [i \in 1..Len(reqs) |-> IF ~p[i].ok THEN 1 ELSE 0]
               /\ bulkFilled' = [i \in 1..Len(reqs) |-> NilResult]
               /\ pending' = GroupKeys(p)
               /\ pc' = "groups"
               /\ UNCHANGED callErr
    /\ lastCall' = Returned("Read", IF NotConnected(client) THEN "not connected" ELSE "none")
    /\ UNCHANGED << clientVars, live, leaked, fnVars, discVars >>

\* The groups loop takes the next group, in the map's order (any), sorts it and
\* splits it into runs and chunks
PickGroup ==
    /\ pc = "groups" /\ chunks = << >> /\ pending # {}
    /\ \E key \in pending :
        \E order \in SortedOrders(GroupIndices(parsed, key), parsed) :
            /\ chunks' = GroupChunks(order, parsed)
            /\ pending' = pending \ {key}
    /\ UNCHANGED << client, pc, requests, parsed, results, handled, remainingIdx,
                    values, callErr, wire, fills, bulkFilled, failedChunk, faults >>
    /\ UNCHANGED << clientVars, lifeVars, fnVars, discVars >>

\* One bulk read: ReadAddressN for the next chunk and the slicing of its reply
BulkRead ==
    /\ pc = "groups" /\ chunks # << >>
    /\ LET chunk == Head(chunks)
           chunkAddr == parsed[chunk[1]]
           count == Len(chunk)
           byteCount == ReadAddressNByteCount(chunkAddr, count)
       IN \E reply \in BulkReplies(chunkAddr, byteCount) :
            LET n == IF reply.err THEN 0
                     ELSE SliceLoop(count, ElementSize(chunkAddr.FileType),
                                    Len(reply.bytes))
                got == { chunk[j] : j \in 1..n }
                stored == [i \in got |->
                             BulkResult(requests[i], parsed[i], chunkAddr, reply.bytes,
                                        CHOOSE j \in 1..n : chunk[j] = i)]
            IN /\ wire' = Append(wire, WireRead("bulk", chunkAddr, byteCount, chunk,
                                    IF reply.err THEN "err"
                                    ELSE IF Len(reply.bytes) < byteCount THEN "short"
                                    ELSE "ok"))
               /\ results' = [i \in DOMAIN results |->
                                IF i \in got THEN stored[i] ELSE results[i]]
               /\ handled' = HandledAfterBulk(handled, chunk, n)
               /\ fills' = [i \in DOMAIN fills |->
                                IF i \in got THEN fills[i] + 1 ELSE fills[i]]
               /\ bulkFilled' = [i \in DOMAIN bulkFilled |->
                                IF i \in got THEN stored[i] ELSE bulkFilled[i]]
               /\ failedChunk' = IF reply.err
                                 THEN failedChunk \cup { chunk[j] : j \in 1..count }
                                 ELSE failedChunk
               /\ faults' = IF reply.err \/ Len(reply.bytes) < byteCount
                            THEN faults + 1 ELSE faults
    /\ chunks' = Tail(chunks)
    /\ UNCHANGED << client, pc, requests, parsed, pending, remainingIdx, values, callErr >>
    /\ UNCHANGED << clientVars, lifeVars, fnVars, discVars >>

\* After the groups loop: what is left goes to Client.Read
StartIndividual ==
    /\ pc = "groups" /\ chunks = << >> /\ pending = {}
    /\ remainingIdx' = RemainingIdx(handled)
    /\ pc' = IF Len(RemainingIdx(handled)) > 0 THEN "single" ELSE "done"
    /\ UNCHANGED << client, requests, parsed, results, handled, pending, chunks,
                    values, callErr, wire, fills, bulkFilled, failedChunk, faults >>
    /\ UNCHANGED << clientVars, lifeVars, fnVars, discVars >>

\* One turn of Client.Read's loop: parse, ReadAddress, decode
IndividualRead ==
    /\ pc = "single" /\ Len(values) < Len(remainingIdx)
    /\ LET j == Len(values) + 1
           name == requests[remainingIdx[j]]
           addr == ParseAddress(name)
       IN IF ~addr.ok
          THEN /\ values' = Append(values, ReadErrorValue(name, "invalid address"))
               /\ UNCHANGED << wire, faults >>
          ELSE \E failed \in (IF j <= MaxLen THEN BOOLEAN ELSE {FALSE}) :
                /\ wire' = Append(wire, WireRead("single", addr, ReadSize(addr),
                                    << remainingIdx[j] >>, IF failed THEN "err" ELSE "ok"))
                /\ values' = Append(values,
                                IF failed THEN ReadErrorValue(name, "read failed")
                                ELSE ReadValue(name, addr, PlcData(addr, ReadSize(addr))))
                /\ faults' = IF failed THEN faults + 1 ELSE faults
    /\ UNCHANGED << client, pc, requests, parsed, results, handled, pending, chunks,
                    remainingIdx, callErr, fills, bulkFilled, failedChunk >>
    /\ UNCHANGED << clientVars, lifeVars, fnVars, discVars >>

\* Client.Read has returned: its entries go to their places in results
FinishRead ==
    /\ pc = "single" /\ Len(values) = Len(remainingIdx)
    /\ results' = [i \in DOMAIN results |->
                     IF \E j \in 1..Len(values) : remainingIdx[j] = i
                     THEN IndividualResult(values[CHOOSE j \in 1..Len(values) :
                                                     remainingIdx[j] = i])
                     ELSE results[i]]
    /\ fills' = [i \in DOMAIN fills |->
                     fills[i] + Cardinality({j \in 1..Len(values) : remainingIdx[j] = i})]
    /\ pc' = "done"
    /\ UNCHANGED << client, requests, parsed, handled, pending, chunks, remainingIdx,
                    values, callErr, wire, bulkFilled, failedChunk, faults >>
    /\ UNCHANGED << clientVars, lifeVars, fnVars, discVars >>

\* The caller has the results; the adapter is ready for the next call
Return ==
    /\ pc = "done"
    /\ pc' = "idle"
    /\ requests' = << >> /\ parsed' = << >> /\ results' = << >> /\ handled' = << >>
    /\ pending' = {} /\ chunks' = << >> /\ remainingIdx' = << >> /\ values' = << >>
    /\ callErr' = "none" /\ wire' = << >> /\ fills' = << >> /\ bulkFilled' = << >>
    /\ failedChunk' = {} /\ faults' = 0
    /\ UNCHANGED client
    /\ UNCHANGED << clientVars, lifeVars, fnVars, discVars >>

NextRead ==
    \/ NotConnected(client) /\ Connect
    \/ Close
    \/ \E reqs \in RequestLists : ReadStart(reqs)
    \/ PickGroup
    \/ BulkRead
    \/ StartIndividual
    \/ IndividualRead
    \/ FinishRead
    \/ Return

SpecRead == Init /\ [][NextRead]_vars

\* ------------------------------------------------------------------------
\* Properties of PCCCAdapter.Read
\* ------------------------------------------------------------------------

\* Read has returned its results with a nil call-level error
ReadReturned == pc = "done" /\ callErr = "none"

\* The typed reads of the call, of one kind, that serve request i
ServingReads(i, kind) ==
    { k \in 1..Len(wire) :
        /\ wire[k].kind = kind
        /\ \E j \in 1..Len(wire[k].serves) : wire[k].serves[j] = i }

\* What request i holds in the PLC, decoded as an individual read decodes it
OwnValue(i) ==
    decodeValue(parsed[i], PlcData(parsed[i], ReadSize(parsed[i])))

C2_BulkFailureFallsBack ==
    failedChunk # {} =>
        /\ callErr = "none"
        /\ \A i \in DOMAIN results : ~bulkFilled[i].nil => results[i] = bulkFilled[i]
        /\ pc = "done" =>
            \A i \in failedChunk :
                \E m \in ServingReads(i, "bulk") :
                    /\ wire[m].outcome = "err"
                    /\ \E k \in ServingReads(i, "single") : k > m

\* A call whose first bulk read succeeded and whose second failed
C2_Witness ==
    /\ pc = "done"
    /\ \E k, m \in 1..Len(wire) :
        /\ k < m
        /\ wire[k].kind = "bulk" /\ wire[k].outcome = "ok"
        /\ wire[m].kind = "bulk" /\ wire[m].outcome = "err"
    /\ \E i \in DOMAIN results : ~bulkFilled[i].nil
    /\ failedChunk # {}

\* C3: every bulk read serves at least 2 requests and asks for (number of
\* requests) x (element size of the file type) bytes, at most 236, whatever
\* the element size; a bulkable request that no bulk read serves is read
\* individually.
C3_BulkReadBounds ==
    /\ \A k \in 1..Len(wire) :
        wire[k].kind = "bulk" =>
            /\ Len(wire[k].serves) >= 2
            /\ wire[k].byteCount = Len(wire[k].serves) * ElementSize(wire[k].FileType)
            /\ wire[k].byteCount <= 236
    /\ ReadReturned =>
        \A i \in DOMAIN parsed :
            (Bulkable(parsed[i]) /\ ServingReads(i, "bulk") = {})
                => Cardinality(ServingReads(i, "single")) = 1

\* A run of 119 two-byte elements: a bulk read of exactly 236 bytes, and the
\* request left over alone read individually
C3_Witness ==
    /\ ReadReturned
    /\ Len(requests) = 119
    /\ \E k \in 1..Len(wire) : wire[k].kind = "bulk" /\ wire[k].byteCount = 236
    /\ Bulkable(parsed[119]) /\ ServingReads(119, "bulk") = {}
    /\ ServingReads(119, "single") # {}

\* No two bulkable requests of the call name the same element
NoRepeatedElement ==
    \A i, j \in DOMAIN parsed :
        (i # j /\ Bulkable(parsed[i]) /\ Bulkable(parsed[j])
            /\ GroupKey(parsed[i]) = GroupKey(parsed[j]))
        => parsed[i].Element # parsed[j].Element

\* The element numbers of the bulkable requests of the file of request i
FileElements(i) ==
    { parsed[j].Element : j \in GroupIndices(parsed, GroupKey(parsed[i])) }

\* The first element number of the run of consecutive elements around request i
RunFirst(i) ==
    LET elems == FileElements(i)
    IN CHOOSE e \in elems :
        /\ e <= parsed[i].Element
        /\ \A x \in e..parsed[i].Element : x \in elems
        /\ (e - 1) \notin elems

\* The last element number of that run
RunLast(i) ==
    LET elems == FileElements(i)
    IN CHOOSE e \in elems :
        /\ e >= parsed[i].Element
        /\ \A x \in parsed[i].Element..e : x \in elems
        /\ (e + 1) \notin elems

\* Request i lies in a chunk of at least 2 requests when its run is cut, from
\* its first element on, into chunks of as many elements as fit 236 bytes
InChunkOfTwo(i) ==
    LET perChunk == 236 \div ElementSize(parsed[i].FileType)
        pos == parsed[i].Element - RunFirst(i)
        runLen == RunLast(i) - RunFirst(i) + 1
        chunkFirst == pos - (pos % perChunk)
    IN Min(perChunk, runLen - chunkFirst) >= 2

\* Bulk read k is for requests of one file with consecutive element numbers
\* that start at the address it asks for
ChunkOfConsecutive(k) ==
    /\ Len(wire[k].serves) >= 2
    /\ \A j \in 1..Len(wire[k].serves) :
        LET a == parsed[wire[k].serves[j]]
        IN /\ Bulkable(a)
           /\ a.FileNumber = wire[k].FileNumber /\ a.FileType = wire[k].FileType
           /\ a.Element = wire[k].Element + j - 1

\* C4: when every PLC read succeeds with data of full length, a request is
\* served by a bulk read exactly when it parses, has sub-element 0 and no bit,
\* and lies in a chunk of at least 2 requests of the same file with consecutive
\* element numbers; every other request that parses is served by exactly one
\* individual read; no request is fetched twice; the list {N7:0, N7:1, N7:2,
\* F8:0, B3:0/5, T4:0.ACC} gives one bulk read of 6 bytes and three
\* individual reads.
C4_BulkExactlyWhenChunked ==
    (ReadReturned /\ faults = 0) =>
        /\ \A k \in 1..Len(wire) : wire[k].kind = "bulk" => ChunkOfConsecutive(k)
        /\ \A i \in DOMAIN parsed :
            LET bulk == ServingReads(i, "bulk")
            IN /\ Cardinality(bulk) + Cardinality(ServingReads(i, "single"))
                    = IF parsed[i].ok THEN 1 ELSE 0
               /\ parsed[i].ok => results[i].Value = OwnValue(i)
               /\ bulk # {} => Bulkable(parsed[i])
        /\ NoRepeatedElement =>
            \A i \in DOMAIN parsed :
                ServingReads(i, "bulk") # {} <=> (Bulkable(parsed[i]) /\ InChunkOfTwo(i))
        /\ requests = ExampleRequests =>
            /\ Cardinality({ k \in 1..Len(wire) : wire[k].kind = "bulk" }) = 1
            /\ \A k \in 1..Len(wire) : wire[k].kind = "bulk" => wire[k].byteCount = 6
            /\ Cardinality({ k \in 1..Len(wire) : wire[k].kind = "single" }) = 3

\* The documented list read without a fault
C4_Witness ==
    /\ ReadReturned /\ faults = 0
    /\ requests = ExampleRequests
    /\ \E k \in 1..Len(wire) : wire[k].kind = "bulk" /\ wire[k].serves = << 1, 2, 3 >>
    /\ ServingReads(4, "single") # {} /\ ServingReads(5, "single") # {}
    /\ ServingReads(6, "single") # {}

\* C10: Read returns a call-level error only when the adapter is not
\* connected; an address that does not parse or whose read fails has the error
\* in its own result, and every other address of the call is returned with
\* its own value.
C10_ErrorsStayPerAddress ==
    /\ callErr # "none" => NotConnected(client)
    /\ ReadReturned =>
        \A i \in DOMAIN results :
            /\ ~results[i].nil
            /\ ~parsed[i].ok <=> results[i].Error = "invalid address"
            /\ results[i].Error = "read failed"
                <=> \E k \in ServingReads(i, "single") : wire[k].outcome = "err"
            /\ results[i].Error \in {"none", "invalid address", "read failed"}
            /\ results[i].Error = "none" => results[i].Value = OwnValue(i)

\* A call with an address that does not parse, an address whose read failed
\* and, after both, an address that was read
C10_Witness ==
    /\ ReadReturned
    /\ \E i, j, k \in DOMAIN results :
        /\ i < k /\ j < k
        /\ results[i].Error = "invalid address"
        /\ results[j].Error = "read failed"
        /\ results[k].Error = "none" /\ results[k].Value = OwnValue(k)
        /\ ServingReads(k, "single") # {}


\* What Client.Read of the one address of request i returns for it when the
\* PLC answers: the bytes of the address and their value
OneByOne(i) ==
    ReadValue(requests[i], parsed[i], PlcData(parsed[i], ReadSize(parsed[i])))

\* C30: for PLC memory that does not change during the call, Read returns for
\* every request the same Value and Bytes whether the request is served by a
\* bulk read or by an individual read, and the returned list does not depend
\* on the order in which the (file_number, file_type) groups are processed:
\* the batched Read is equivalent to reading each address one by one.
C30_BatchedEqualsOneByOne ==
    /\ \A i \in DOMAIN bulkFilled :
            ~bulkFilled[i].nil =>
                /\ bulkFilled[i].Value = OneByOne(i).Value
                /\ bulkFilled[i].Bytes = OneByOne(i).Bytes
    /\ ReadReturned =>
        \A i \in DOMAIN results :
            /\ results[i].Error = "none" =>
                    /\ results[i].Value = OneByOne(i).Value
                    /\ results[i].Bytes = OneByOne(i).Bytes
            /\ results[i].Error # "none" =>
                    results[i].Value = NilValue /\ results[i].Bytes = << >>
            /\ faults = 0 =>
                    results[i] = IF parsed[i].ok THEN IndividualResult(OneByOne(i))
                                 ELSE ParseErrorResult(requests[i])

\* The list {N7:0, N7:1, F8:0, F8:1} has been read by two bulk reads, the
\* floats first, and every result is that of its own address
C30_Witness ==
    /\ ReadReturned /\ faults = 0
    /\ requests = << <<"N", "7", ":", "0">>, <<"N", "7", ":", "1">>,
                     <<"F", "8", ":", "0">>, <<"F", "8", ":", "1">> >>
    /\ Len(wire) = 2 /\ wire[1].kind = "bulk" /\ wire[1].serves = << 3, 4 >>
    /\ wire[2].kind = "bulk" /\ wire[2].serves = << 1, 2 >>
    /\ \A i \in 1..4 : results[i] = IndividualResult(OneByOne(i))

\* The same list read with the integers first
IntegersFirst ==
    /\ ReadReturned /\ faults = 0
    /\ Len(requests) = 4 /\ Len(wire) = 2
    /\ wire[1].kind = "bulk" /\ wire[1].serves = << 1, 2 >>
    /\ wire[2].kind = "bulk" /\ wire[2].serves = << 3, 4 >>
    /\ \A i \in 1..4 : results[i] = IndividualResult(OneByOne(i))

\* {N7:0, N7:1} read one by one after the bulk read failed, with the values
\* the bulk read would have given
ServedOneByOne ==
    /\ ReadReturned
    /\ requests = << <<"N", "7", ":", "0">>, <<"N", "7", ":", "1">> >>
    /\ failedChunk = {1, 2}
    /\ \A i \in 1..2 : ServingReads(i, "single") # {}
                         /\ results[i] = IndividualResult(OneByOne(i))

\* ------------------------------------------------------------------------
\* One pccc.Client shared by goroutines: Write to a bit, Read, the bulk read,
\* the discovery commands, step by step (one action per access to the counter
\* or to the connection)
\* ------------------------------------------------------------------------

\* The calls started in one run
MaxCalls == 2

\* A counter that wraps from 65535 to 1
AddSkippingZero(c) ==
    << c[1], IF c[2] + 1 = Word16 THEN 1 ELSE c[2] + 1 >>

\* atomic.AddUint32(&p.tns, 1), on the two halves of the counter
AddUint32(c) ==
    LET lo == (c[2] + 1) % Word16
    IN << IF lo = 0 THEN (c[1] + 1) % Word16 ELSE c[1], lo >>

\* uint16(x) of a uint32
Uint16(c) == c[2]

\* writeBit's switch on the type of the value: the types it takes
BitConvertible(value) == value.k \in {"bool", "int16", "int32", "float32"}

\* writeBit's switch on the type of the value: bitVal
BitVal(value) ==
    CASE value.k = "bool" -> value.v
      [] value.k \in {"int16", "int32"} -> value.v # 0
      [] value.k = "float32" -> value.bits \notin { <<0, 0, 0, 0>>, <<0, 0, 0, 128>> }

\* A word with nothing but the target bit
OnlyBit(word, bit, bitVal) == IF bitVal THEN 2 ^ bit ELSE 0

\* writeBit: word |= 1 << bit, or word &^= 1 << bit
ModifyBit(word, bit, bitVal) ==
    IF bitVal THEN OrBit(word, bit) ELSE AndNotBit(word, bit)

\* writeBit's readAddr: the address of the word, the bit number cleared
readAddr(addr) == [addr EXCEPT !.BitNumber = -1, !.TypeLetter = << >>]

\* The bytes written back, high byte first
BEBytes16(word) == << (word \div 256) % 256, word % 256 >>

\* writeBit: the data of the write-back
WriteBackData(word) == LEBytes16(word)

\* An encoder's results: the bytes, or the error
Encoded(data) == [ok |-> TRUE, data |-> data]
EncodeError == [ok |-> FALSE, data |-> << >>]

\* binary.LittleEndian.AppendUint32(nil, uint32(v)) of an int32
LEBytes32(v) ==
    << v % 256, (v \div 256) % 256, (v \div 65536) % 256, (v \div 16777216) % 256 >>

\* The fields of a float32 given as its four bytes in wire order
FloatSign(bits) == bits[4] \div 128
FloatExponent(bits) == (bits[4] % 128) * 2 + bits[3] \div 128
FloatMantissa(bits) == (bits[3] % 128) * 65536 + bits[2] * 256 + bits[1]

\* The integer conversion of a float32 (toward zero). A float32 beyond the
\* target's range converts to a value Go leaves to the implementation; the
\* values written here are all within int16.
TruncFloat32(bits) ==
    LET e == FloatExponent(bits)
        mag == IF e < 127 THEN 0
               ELSE IF e <= 150 THEN (8388608 + FloatMantissa(bits)) \div (2 ^ (150 - e))
               ELSE (8388608 + FloatMantissa(bits)) * (2 ^ (e - 150))
    IN IF FloatSign(bits) = 1 THEN 0 - mag ELSE mag

\* math.Float32bits(float32(v)) of an integer below 2^24 in size, in wire order
Float32Bits(v) ==
    IF v = 0 THEN << 0, 0, 0, 0 >>
    ELSE LET a == IF v < 0 THEN 0 - v ELSE v
             e == CHOOSE k \in 0..23 : 2 ^ k <= a /\ a < 2 ^ (k + 1)
             mant == (a - 2 ^ e) * (2 ^ (23 - e))
             exp == 127 + e
         IN << mant % 256, (mant \div 256) % 256,
               (exp % 2) * 128 + mant \div 65536,
               (IF v < 0 THEN 128 ELSE 0) + exp \div 2 >>

\* encodeInt16: the switch on the type of the value, then uint16(intVal)
\* An encoder that takes a value of any type
EncodeAnything(value) == Encoded(<< 0, 0 >>)

encodeInt16(value) ==
    CASE value.k \in {"int16", "int32"} -> Encoded(LEBytes16(value.v % 65536))
      [] value.k = "float32" -> Encoded(LEBytes16(TruncFloat32(value.bits) % 65536))
      [] value.k = "bool" -> Encoded(LEBytes16(IF value.v THEN 1 ELSE 0))
      [] OTHER -> EncodeError

\* encodeFloat32
encodeFloat32(value) ==
    CASE value.k = "float32" -> Encoded(value.bits)
      [] value.k \in {"int16", "int32"} -> Encoded(Float32Bits(value.v))
      [] OTHER -> EncodeError

\* encodeInt32
encodeInt32(value) ==
    CASE value.k \in {"int16", "int32"} -> Encoded(LEBytes32(value.v))
      [] value.k = "float32" -> Encoded(LEBytes32(TruncFloat32(value.bits)))
      [] OTHER -> EncodeError

\* An encoder that sends a string whole, however long
EncodeStringWhole(value) ==
    IF value.k \in {"string", "bytes"}
    THEN Encoded(LEBytes16(Len(value.v)) \o value.v)
    ELSE EncodeError

\* encodeString: at most 82 characters after a 2-byte length
encodeString(value) ==
    IF value.k \in {"string", "bytes"}
    THEN LET strBytes == SubSeq(value.v, 1, Min(Len(value.v), 82))
         IN Encoded(LEBytes16(Len(strBytes)) \o strBytes)
    ELSE EncodeError

\* An encoder that takes a Timer, Counter or Control element as one word
EncodeWholeElement(addr, value) ==
    IF IsComplexType(addr.FileType) THEN encodeInt16(value) ELSE EncodeError

\* encodeValue: the encoder of the address's file type
encodeValue(addr, value) ==
    CASE addr.FileType \in {FileTypeInteger, FileTypeOutput, FileTypeInput,
                            FileTypeStatus, FileTypeBinary, FileTypeASCII} ->
            encodeInt16(value)
      [] addr.FileType = FileTypeFloat -> encodeFloat32(value)
      [] addr.FileType = FileTypeLong -> encodeInt32(value)
      [] IsComplexType(addr.FileType) ->
            IF addr.SubElement > 0 THEN encodeInt16(value) ELSE EncodeError
      [] addr.FileType = FileTypeString -> encodeString(value)
      [] OTHER -> EncodeError

\* The session lets any goroutine in
SessionOpen(h) == TRUE

\* EipClient.SendRRData lets one goroutine at a time send and receive
SessionFree(h) == h = 0

\* The command a goroutine sends next, as it goes on the connection
CommandOf(c) ==
    LET a == IF c.op = "writeBit" THEN readAddr(c.addr) ELSE c.addr
        kind == CASE c.op = "writeBit" -> c.phase
                  [] c.op = "read" -> "read"
                  [] OTHER -> c.op
    IN [n |-> c.n, kind |-> kind, key |-> ElemKey(a), SubElement |-> a.SubElement,
        size |-> CASE kind = "read" -> ReadSize(a)
                   [] kind = "write" -> Len(c.data)
                   [] kind = "readN" -> ReadAddressNByteCount(a, MinBulk)
                   [] OTHER -> 0,
        data |-> IF kind = "write" THEN c.data ELSE << >>,
        tns |-> c.tns]

\* The bytes the PLC returns for a typed read of size bytes
PlcRead(m, key, sub, size) ==
    [b \in 1..size |->
        LET word == m[key][sub + 1 + ((b - 1) \div 2)]
        IN IF (b - 1) % 2 = 0 THEN word % 256 ELSE word \div 256]

\* The PLC's data table after a typed write of data at a sub-element
PlcWrite(m, key, sub, data) ==
    [m EXCEPT ![key] =
        [i \in DOMAIN m[key] |->
            IF i > sub /\ i <= sub + Len(data) \div 2
            THEN LEUint16(SubSeq(data, 2 * (i - sub) - 1, 2 * (i - sub)))
            ELSE m[key][i]]]

\* The call of a goroutine returns
Finish(p, err) ==
    /\ returned' = returned \cup
            { [proc |-> p, n |-> cur[p].n, op |-> cur[p].op, key |-> ElemKey(cur[p].addr),
               sub |-> cur[p].addr.SubElement, bit |-> cur[p].addr.BitNumber,
               bitVal |-> cur[p].bitVal, value |-> cur[p].value,
               readWord |-> cur[p].readWord, err |-> err] }
    /\ cur' = [cur EXCEPT ![p] = NoCall]
    /\ gpc' = [gpc EXCEPT ![p] = "idle"]

\* A call begins and goes on to its first command
Begin(p, op, addr, bitVal) ==
    /\ cur' = [cur EXCEPT ![p] = [NoCall EXCEPT !.op = op, !.n = calls + 1, !.addr = addr,
                                          !.bitVal = bitVal,
                                          !.phase = IF op = "writeBit" THEN "read" ELSE op]]
    /\ gpc' = [gpc EXCEPT ![p] = "tns"]
    /\ UNCHANGED returned

\* Write goes on to writeBit, which has taken the bit value from the value
BeginWriteBit(p, addr, value) ==
    /\ cur' = [cur EXCEPT ![p] = [NoCall EXCEPT !.op = "writeBit", !.n = calls + 1,
                                          !.addr = addr, !.bitVal = BitVal(value),
                                          !.phase = "read", !.value = value]]
    /\ gpc' = [gpc EXCEPT ![p] = "tns"]
    /\ UNCHANGED returned

\* Write goes on to WriteAddress with the encoded value
BeginWrite(p, addr, value, data) ==
    /\ cur' = [cur EXCEPT ![p] = [NoCall EXCEPT !.op = "write", !.n = calls + 1,
                                          !.addr = addr, !.phase = "write",
                                          !.data = data, !.value = value]]
    /\ gpc' = [gpc EXCEPT ![p] = "tns"]
    /\ UNCHANGED returned

\* A call returns an error before any command
Refuse(p, op, addr, value, err) ==
    /\ returned' = returned \cup
            { [proc |-> p, n |-> calls + 1, op |-> op, key |-> ElemKey(addr),
               sub |-> addr.SubElement, bit |-> addr.BitNumber, bitVal |-> FALSE,
               value |-> value, readWord |-> 0, err |-> err] }
    /\ UNCHANGED << cur, gpc >>

\* A goroutine outside any call may start one. (The goroutines are alike: the
\* first call of a run is taken to be goroutine 1's.)
CanCall(p) ==
    /\ gpc[p] = "idle"
    /\ calls < MaxCalls
    /\ calls = 0 => p = 1

\* What a call leaves alone until its first command
callFrame == << mem, tns, tns0, holder, stream, replies, sent, allocs, crossed >>

\* Client.Write(name, value) up to the first command: the address is parsed; a
\* bit address goes to writeBit, which converts the value and builds readAddr;
\* any other address has the value encoded and goes to WriteAddress
CallWrite(p, name, value) ==
    /\ CanCall(p)
    /\ calls' = calls + 1
    /\ LET addr == ParseAddress(name)
       IN IF ~addr.ok THEN Refuse(p, "write", addr, value, "invalid address")
          ELSE IF addr.BitNumber >= 0
          THEN IF BitConvertible(value) THEN BeginWriteBit(p, addr, value)
               ELSE Refuse(p, "writeBit", addr, value, "cannot convert")
          ELSE IF encodeValue(addr, value).ok
          THEN BeginWrite(p, addr, value, encodeValue(addr, value).data)
          ELSE Refuse(p, "write", addr, value, "cannot encode")
    /\ UNCHANGED << callFrame, readVars, lifeVars, fnVars, discVars >>

\* Client.Read(name) of one address up to its command
CallRead(p, name) ==
    /\ CanCall(p)
    /\ calls' = calls + 1
    /\ LET addr == ParseAddress(name)
       IN IF ~addr.ok
          THEN Refuse(p, "read", addr, NilValue, "invalid address")
          ELSE Begin(p, "read", addr, FALSE)
    /\ UNCHANGED << callFrame, readVars, lifeVars, fnVars, discVars >>

\* PLC.ReadAddressN(addr, 2) up to its command
CallReadAddressN(p, name) ==
    /\ CanCall(p)
    /\ calls' = calls + 1
    /\ Begin(p, "readN", readAddr(ParseAddress(name)), FALSE)
    /\ UNCHANGED << callFrame, readVars, lifeVars, fnVars, discVars >>

\* PLC.GetProcessorType up to its command
CallGetProcessorType(p) ==
    /\ CanCall(p)
    /\ calls' = calls + 1
    /\ Begin(p, "diag", NoAddress, FALSE)
    /\ UNCHANGED << callFrame, readVars, lifeVars, fnVars, discVars >>

\* PLC.readSection up to its command
CallReadSection(p) ==
    /\ CanCall(p)
    /\ calls' = calls + 1
    /\ Begin(p, "section", NoAddress, FALSE)
    /\ UNCHANGED << callFrame, readVars, lifeVars, fnVars, discVars >>

\* PLC.nextTNS: tns := uint16(atomic.AddUint32(&p.tns, 1))
NextTNS(p) ==
    /\ gpc[p] = "tns"
    /\ tns' = AddUint32(tns)
    /\ cur' = [cur EXCEPT ![p].tns = Uint16(AddUint32(tns))]
    /\ allocs' = Append(allocs, [proc |-> p, n |-> cur[p].n, tns |-> Uint16(AddUint32(tns))])
    /\ gpc' = [gpc EXCEPT ![p] = "send"]
    /\ UNCHANGED << mem, tns0, holder, stream, replies, calls, sent, returned, crossed,
                    readVars, lifeVars, fnVars, discVars >>

\* sendCipRequest, SendRRData: the goroutine enters the session and writes
\* its request to the connection
Send(p) ==
    /\ gpc[p] = "send"
    /\ SessionFree(holder)
    /\ holder' = p
    /\ sent' = Append(sent, [ CommandOf(cur[p]) EXCEPT !.tns = cur[p].tns ]
                                @@ [proc |-> p, outstanding |-> Len(stream) + Len(replies)])
    /\ stream' = Append(stream, Len(sent) + 1)
    /\ cur' = [cur EXCEPT ![p].sentAt = Len(sent) + 1]
    /\ gpc' = [gpc EXCEPT ![p] = "recv"]
    /\ UNCHANGED << mem, tns, tns0, replies, calls, allocs, returned, crossed, readVars, lifeVars, fnVars, discVars >>

\* The replies the PLC may give to a command
Outcomes(kind) == IF kind = "read" THEN {"ok", "err", "short"} ELSE {"ok", "err"}

\* The PLC serves the oldest request on the connection and writes its reply
PlcServe ==
    /\ stream # << >>
    /\ LET k == Head(stream)
           c == sent[k]
           q == c.proc
           mine == cur[q].op = "writeBit" /\ cur[q].sentAt = k
       IN \E outcome \in Outcomes(c.kind) :
            LET full == IF c.kind = "read" THEN PlcRead(mem, c.key, c.SubElement, c.size)
                        ELSE << >>
                bytes == CASE outcome = "ok" -> full
                           [] outcome = "short" -> SubSeq(full, 1, 1)
                           [] OTHER -> << >>
                after == IF c.kind = "write" /\ outcome = "ok"
                         THEN PlcWrite(mem, c.key, c.SubElement, c.data)
                         ELSE mem
            IN /\ mem' = after
               /\ replies' = Append(replies, [for |-> k, err |-> outcome = "err",
                                              bytes |-> bytes])
               /\ cur' = IF mine /\ outcome = "ok"
                         THEN [cur EXCEPT ![q].readServed = (c.kind = "read")]
                         ELSE cur
    /\ stream' = Tail(stream)
    /\ UNCHANGED << tns, tns0, holder, gpc, calls, sent, allocs, returned, crossed,
                    readVars, lifeVars, fnVars, discVars >>

\* SendRRData returns: the goroutine reads the next reply from the connection
\* and leaves the session; the call goes on with the reply
Recv(p) ==
    /\ gpc[p] = "recv"
    /\ replies # << >>
    /\ LET r == Head(replies)
           c == cur[p]
       IN /\ crossed' = (crossed \/ r.for # c.sentAt)
          /\ IF c.op = "writeBit" /\ c.phase = "read"
             THEN IF r.err THEN Finish(p, "bit write read-back failed")
                  ELSE IF Len(r.bytes) < 2 THEN Finish(p, "bit write: short read")
                  ELSE LET word == LEUint16(SubSeq(r.bytes, 1, 2))
                       IN /\ cur' = [cur EXCEPT
                                ![p].phase = "write",
                                ![p].readWord = word,
                                ![p].data = WriteBackData(
                                    ModifyBit(word, c.addr.BitNumber, c.bitVal))]
                          /\ gpc' = [gpc EXCEPT ![p] = "tns"]
                          /\ UNCHANGED returned
             ELSE Finish(p, IF r.err THEN "failed" ELSE "none")
    /\ replies' = Tail(replies)
    /\ holder' = 0
    /\ UNCHANGED << mem, tns, tns0, stream, calls, sent, allocs, readVars, lifeVars, fnVars, discVars >>

\* The word of the PLC that its own program changes
PlcWord == ElemKey(ParseAddress(<<"B", "3", ":", "0">>))

\* A bit write has read B3:0 and the PLC has not yet served its write-back
InWindow(c) == c.op = "writeBit" /\ c.readServed /\ ElemKey(c.addr) = PlcWord

\* The PLC's program changes a bit of B3:0 between the read and the write-back
\* of a bit write. (Its changes at other times only decide what the next read
\* finds, as the starting words do.)
PlcChange ==
    /\ \E p \in Procs : InWindow(cur[p]) /\ ~cur[p].plcChanged
    /\ \E b \in PlcBits :
        LET old == mem[PlcWord][1]
            new == IF BitOf(old, b) = 1 THEN AndNotBit(old, b) ELSE OrBit(old, b)
        IN /\ mem' = [mem EXCEPT ![PlcWord][1] = new]
           /\ cur' = [p \in Procs |->
                        IF InWindow(cur[p])
                        THEN [cur[p] EXCEPT !.plcChanged = TRUE, !.plcBit = b,
                                            !.plcValue = (BitOf(new, b) = 1)]
                        ELSE cur[p]]
    /\ UNCHANGED << tns, tns0, holder, stream, replies, gpc, calls, sent, allocs,
                    returned, crossed, readVars, lifeVars, fnVars, discVars >>

\* Goroutines that write and read bits of the same words, on a new session
InitBits ==
    /\ ReadIdle
    /\ \E w \in StartWords : ClientFresh(<<0, 0>>, w)
    /\ NoInput /\ NoPlc

NextBits ==
    \/ \E p \in Procs, w \in BitWrites : CallWrite(p, w[1], w[2])
    \/ \E p \in Procs : NextTNS(p)
    \/ \E p \in Procs : Send(p)
    \/ PlcServe
    \/ \E p \in Procs : Recv(p)
    \/ PlcChange

SpecBits == InitBits /\ [][NextBits]_vars

\* Goroutines that send every kind of command, on sessions new and old
InitSession ==
    /\ ReadIdle
    /\ \E t \in StartCounters, w \in StartWords : ClientFresh(t, w)
    /\ NoInput /\ NoPlc

NextSession ==
    \/ \E p \in Procs : CallWrite(p, <<"B", "3", ":", "0", "/", "0">>, BoolValue(TRUE))
    \/ \E p \in Procs : CallRead(p, <<"B", "3", ":", "0", "/", "1">>)
    \/ \E p \in Procs : CallReadAddressN(p, <<"B", "3", ":", "0">>)
    \/ \E p \in Procs : CallGetProcessorType(p)
    \/ \E p \in Procs : CallReadSection(p)
    \/ \E p \in Procs : NextTNS(p)
    \/ \E p \in Procs : Send(p)
    \/ PlcServe
    \/ \E p \in Procs : Recv(p)

SpecSession == InitSession /\ [][NextSession]_vars

\* ------------------------------------------------------------------------
\* Properties of the shared Client
\* ------------------------------------------------------------------------

\* The commands call n sent, as places in the order of sending
CommandsOf(n) == { k \in 1..Len(sent) : sent[k].n = n }

\* A bit write that returned without an error
BitWritten(d) == d.op = "writeBit" /\ d.err = "none"

\* Bit x of a word is what a bit write of d leaves there, given the word read
BitAsWritten(word, x, d, wordRead) ==
    BitOf(word, x) = IF x = d.bit THEN (IF d.bitVal THEN 1 ELSE 0) ELSE BitOf(wordRead, x)

C6_BitWritesInCriticalSection ==
    \A d1, d2 \in returned :
        (/\ returned = {d1, d2} /\ d1.proc # d2.proc
         /\ BitWritten(d1) /\ BitWritten(d2)
         /\ d1.key = d2.key /\ d1.bit # d2.bit
         /\ \A p \in Procs : gpc[p] = "idle")
        => /\ \A k \in CommandsOf(d1.n), m \in CommandsOf(d2.n) :
                  \A k2 \in CommandsOf(d1.n) : ~(k < m /\ m < k2)
           /\ \A x \in 0..15 :
                  /\ x = d1.bit => BitOf(mem[d1.key][1], x) = (IF d1.bitVal THEN 1 ELSE 0)
                  /\ x = d2.bit => BitOf(mem[d2.key][1], x) = (IF d2.bitVal THEN 1 ELSE 0)

\* C7: at most one request of a Client is on the connection or awaits its
\* reply at any time: no request is sent before the reply to the one before
\* has been taken, and a goroutine takes the reply to its own request.
C7_OneRequestInFlight ==
    /\ Len(stream) + Len(replies) <= 1
    /\ Cardinality({ p \in Procs : gpc[p] = "recv" }) <= 1
    /\ \A k \in 1..Len(sent) : sent[k].outstanding = 0
    /\ ~crossed
    /\ \A p \in Procs :
        (gpc[p] = "recv" /\ replies # << >>) => Head(replies).for = cur[p].sentAt

\* A goroutine awaits the reply the PLC has written while another stands
\* before the session with its request
C7_Witness ==
    \E p, q \in Procs :
        /\ p # q
        /\ gpc[p] = "recv" /\ holder = p /\ replies # << >>
        /\ gpc[q] = "send"
        /\ cur[p].op # cur[q].op

\* C8: the PLC serves the write-back of a bit write by storing the word as
\* the client read it, but for the target bit: whatever the PLC changed in
\* the other bits since the read is overwritten by what was read.
C8_WriteBackOverwrites ==
    [][ (/\ stream # << >> /\ stream' = Tail(stream)
         /\ sent[Head(stream)].kind = "write"
         /\ ~replies'[Len(replies')].err)
        => LET c == sent[Head(stream)]
               q == cur[c.proc]
           IN \A x \in 0..15 :
                BitOf(mem'[c.key][c.SubElement + 1], x)
                    = IF x = q.addr.BitNumber THEN (IF q.bitVal THEN 1 ELSE 0)
                      ELSE BitOf(q.readWord, x) ]_vars

\* The PLC changed bit 7 after the read of a bit write, and the write-back,
\* now served, has put the bit back to what was read: the PLC's change is lost
C8_Witness ==
    \E p \in Procs :
        /\ cur[p].op = "writeBit" /\ cur[p].phase = "write" /\ gpc[p] = "recv"
        /\ replies # << >> /\ ~Head(replies).err
        /\ cur[p].plcChanged /\ cur[p].plcBit # cur[p].addr.BitNumber
        /\ BitOf(mem[PlcWord][1], cur[p].plcBit) # (IF cur[p].plcValue THEN 1 ELSE 0)
        /\ BitOf(mem[PlcWord][1], cur[p].plcBit) = BitOf(cur[p].readWord, cur[p].plcBit)

\* The claim C9 as made: the k-th command sent carries the number of the
\* command before it plus 1 modulo 2^16, the first of a new session 1, also
\* when goroutines send at the same time.
C9_WireInNumberOrder ==
    \A k \in 1..Len(sent) : sent[k].tns = (Uint16(tns0) + k) % Word16

\* C9, amended: the k-th call of nextTNS returns the number of the call
\* before it plus 1 modulo 2^16, the first of a new session 1, whichever
\* goroutines call and across the wrap of the 32-bit counter; every command
\* carries the number its own call took, no two commands carry the same, and
\* the commands of a single goroutine are sent in the order of their numbers.
C9_NumbersTakenInOrder ==
    /\ \A k \in 1..Len(allocs) : allocs[k].tns = (Uint16(tns0) + k) % Word16
    /\ tns0 = <<0, 0>> /\ Len(allocs) > 0 => allocs[1].tns = 1
    /\ Uint16(tns) = (Uint16(tns0) + Len(allocs)) % Word16
    /\ tns[1] = (tns0[1] + ((Uint16(tns0) + Len(allocs)) \div Word16)) % Word16
    /\ \A k \in 1..Len(sent) :
        \E a \in 1..Len(allocs) :
            /\ allocs[a].proc = sent[k].proc /\ allocs[a].n = sent[k].n
            /\ allocs[a].tns = sent[k].tns
    /\ \A j, k \in 1..Len(sent) : j # k => sent[j].tns # sent[k].tns
    /\ (\A a \in 1..Len(allocs) : allocs[a].proc = allocs[1].proc)
        => \A k \in 1..Len(sent) : sent[k].tns = (Uint16(tns0) + k) % Word16

\* Two goroutines took the numbers 65535 and 0 as the 32-bit counter wrapped,
\* and the command numbered 0 went out first
C9_Witness ==
    /\ tns0 = <<65535, 65534>> /\ tns = <<0, 0>>
    /\ Len(sent) = 2
    /\ sent[1].tns = 0 /\ sent[2].tns = 65535
    /\ sent[1].proc # sent[2].proc

\* ------------------------------------------------------------------------
\* The life of a PCCCAdapter: Connect, Close and the methods that need a
\* connection
\* ------------------------------------------------------------------------

\* IsConnected has returned b
ReturnedBool(op, b) == [op |-> op, err |-> "none", connected |-> b]

\* eip.EipClient.IsConnected: whether the session is open
SessionActive(open) == open

\* What Client.Write, Client.DiscoverDataFiles and Client.GetIdentity may
\* return to the adapter that holds a Client
ClientOutcomes == {"none", "failed"}

\* PCCCAdapter.IsConnected
IsConnected ==
    /\ pc = "idle"
    /\ lastCall' = ReturnedBool("IsConnected",
                                ~NotConnected(client) /\ SessionActive(live))
    /\ UNCHANGED << live, leaked, readVars, clientVars, fnVars, discVars >>

\* PCCCAdapter.Write
AdapterWrite ==
    /\ pc = "idle"
    /\ IF NotConnected(client)
       THEN lastCall' = Returned("Write", "not connected")
       ELSE \E e \in ClientOutcomes : lastCall' = Returned("Write", e)
    /\ UNCHANGED << live, leaked, readVars, clientVars, fnVars, discVars >>

\* PCCCAdapter.AllTags
AllTags ==
    /\ pc = "idle"
    /\ IF NotConnected(client)
       THEN lastCall' = Returned("AllTags", "not connected")
       ELSE \E e \in ClientOutcomes \cup {"not supported for PLC-5"} :
                lastCall' = Returned("AllTags", e)
    /\ UNCHANGED << live, leaked, readVars, clientVars, fnVars, discVars >>

\* PCCCAdapter.GetDeviceInfo
GetDeviceInfo ==
    /\ pc = "idle"
    /\ IF NotConnected(client)
       THEN lastCall' = Returned("GetDeviceInfo", "not connected")
       ELSE \E e \in ClientOutcomes : lastCall' = Returned("GetDeviceInfo", e)
    /\ UNCHANGED << live, leaked, readVars, clientVars, fnVars, discVars >>

\* The transport fails: the session of a.client is closed
TransportFailure ==
    /\ live
    /\ live' = FALSE
    /\ UNCHANGED << leaked, lastCall, readVars, clientVars, fnVars, discVars >>

\* The request lists read while the adapter lives
LifeRequests == { << <<"N", "7", ":", "0">> >>,
                  << <<"N", "7", ":", "0">>, <<"N", "7", ":", "1">> >> }

NextLife ==
    \/ Connect
    \/ Close
    \/ IsConnected
    \/ AdapterWrite
    \/ AllTags
    \/ GetDeviceInfo
    \/ TransportFailure
    \/ \E reqs \in LifeRequests : ReadStart(reqs)
    \/ PickGroup
    \/ BulkRead
    \/ StartIndividual
    \/ IndividualRead
    \/ FinishRead
    \/ Return

SpecLife == Init /\ [][NextLife]_vars

\* A method that needs a connection was called on an adapter without a
\* Client and did not fail with the not-connected error, or IsConnected
\* returned true on it
ClosedAdapterRefuses ==
    NotConnected(client) =>
        /\ lastCall.op \in {"Read", "Write", "AllTags", "GetDeviceInfo"}
                => lastCall.err = "not connected"
        /\ lastCall.op = "IsConnected" => ~lastCall.connected
        /\ pc = "done" => callErr = "not connected"

\* C11: whatever Connect and Close calls were made, once Close has returned
\* nil no session opened by an earlier Connect is open, IsConnected is false
\* and Read, Write, AllTags and GetDeviceInfo fail with the not-connected
\* error until the next Connect; a further Close changes nothing and returns
\* nil.
C11_CloseLeavesNoSession ==
    /\ lastCall.op = "Close" =>
        /\ lastCall.err = "none"
        /\ NotConnected(client)
        /\ OpenSessions = 0
    /\ ClosedAdapterRefuses

\* ------------------------------------------------------------------------
\* Discovery: the processor catalog, the layout of system file 0 and the
\* file directory
\* ------------------------------------------------------------------------

FileTypePlaceholder == 129

FileTypeName(fileType) ==
    CASE fileType = FileTypeOutput -> "Output"
      [] fileType = FileTypeInput -> "Input"
      [] fileType = FileTypeStatus -> "Status"
      [] fileType = FileTypeBinary -> "Binary"
      [] fileType = FileTypeTimer -> "Timer"
      [] fileType = FileTypeCounter -> "Counter"
      [] fileType = FileTypeControl -> "Control"
      [] fileType = FileTypeInteger -> "Integer"
      [] fileType = FileTypeFloat -> "Float"
      [] fileType = FileTypeString -> "String"
      [] fileType = FileTypeASCII -> "ASCII"
      [] fileType = FileTypeLong -> "Long"
      [] fileType = FileTypeMessage -> "Message"
      [] fileType = FileTypePID -> "PID"
      [] OTHER -> "Unknown"

FileTypePrefix(fileType) ==
    CASE fileType = FileTypeOutput -> "O"
      [] fileType = FileTypeInput -> "I"
      [] fileType = FileTypeStatus -> "S"
      [] fileType = FileTypeBinary -> "B"
      [] fileType = FileTypeTimer -> "T"
      [] fileType = FileTypeCounter -> "C"
      [] fileType = FileTypeControl -> "R"
      [] fileType = FileTypeInteger -> "N"
      [] fileType = FileTypeFloat -> "F"
      [] fileType = FileTypeString -> "ST"
      [] fileType = FileTypeASCII -> "A"
      [] fileType = FileTypeLong -> "L"
      [] fileType = FileTypeMessage -> "MG"
      [] fileType = FileTypePID -> "PD"
      [] OTHER -> ""

\* A Sys0Info; ok: lookupSys0Info returned it with a nil error
Sys0Info(fileType, sizeElement, filePosition, rowSize, sizeConst) ==
    [ok |-> TRUE, FileType |-> fileType, SizeElement |-> sizeElement,
     FilePosition |-> filePosition, RowSize |-> rowSize, SizeConst |-> sizeConst]

NoSys0Info ==
    [ok |-> FALSE, FileType |-> 0, SizeElement |-> 0, FilePosition |-> 0,
     RowSize |-> 0, SizeConst |-> 0]

lookupSys0Info(prefix) ==
    CASE prefix = <<"1", "7", "4", "7">> -> Sys0Info(1, 35, 79, 10, 0)
      [] prefix = <<"1", "7", "6", "1">> -> Sys0Info(0, 35, 93, 8, 0)
      [] prefix \in { <<"1", "7", "6", "2">>, <<"1", "7", "6", "3">>,
                      <<"1", "7", "6", "4">> } -> Sys0Info(2, 40, 233, 10, 19968)
      [] prefix = <<"1", "7", "6", "6">> -> Sys0Info(3, 43, 233, 10, 19968)
      [] OTHER -> NoSys0Info

\* The catalog field of the Diagnostic Status reply is a sequence of
\* characters; "NUL" stands for the zero byte
extractCatalog(raw) ==
    LET nuls == { i \in 1..Len(raw) : raw[i] = "NUL" }
        end == IF nuls = {} THEN Len(raw)
               ELSE (CHOOSE i \in nuls : \A j \in nuls : i <= j) - 1
        kept == { i \in 1..end : raw[i] # " " }
        last == IF kept = {} THEN 0 ELSE CHOOSE i \in kept : \A j \in kept : j <= i
    IN SubSeq(raw, 1, last)

extractCatalogPrefix(catalog) ==
    IF Len(catalog) < 4 THEN catalog ELSE SubSeq(catalog, 1, 4)

\* A FileDirectoryEntry
FileDirectoryEntry(fileNumber, ft, elemCount) ==
    [FileNumber |-> fileNumber, FileType |-> ft, FileTypeName |-> FileTypeName(ft),
     TypePrefix |-> FileTypePrefix(ft), ElementCount |-> elemCount]

\* parseFileDirectory: row[sys0.SizeElement] is evaluated with the index equal
\* to len(row), which Go answers with a run-time panic
RowPanics(row, sys0) ==
    ~(sys0.SizeElement < Len(row)) /\ sys0.SizeElement < Len(row) + 1

\* parseFileDirectory: elemCount of a row that is kept and does not panic
RowElemCount(row, sys0) ==
    LET first == IF sys0.SizeElement < Len(row) THEN row[sys0.SizeElement + 1] ELSE 0
        sizeOffset == sys0.SizeElement
    IN IF sizeOffset + 1 < Len(row)
       THEN LEUint16(SubSeq(row, sizeOffset + 1, sizeOffset + 2))
       ELSE IF sizeOffset < Len(row) THEN row[sizeOffset + 1]
       ELSE first

\* A skipped row that leaves the file number as it is
SkippedKeepsNumber(fileNumber) == fileNumber

\* parseFileDirectory: fileNumber++ before the continue of a skipped row
AfterSkipped(fileNumber) == fileNumber + 1

\* The loop of parseFileDirectory from offset on
RECURSIVE DirectoryLoop(_, _, _, _, _)
DirectoryLoop(data, sys0, offset, fileNumber, entries) ==
    IF ~(offset + sys0.RowSize <= Len(data))
    THEN [panic |-> FALSE, entries |-> entries]
    ELSE LET row == SubSeq(data, offset + 1, offset + sys0.RowSize)
         IN IF sys0.FileType >= Len(row)
            THEN DirectoryLoop(data, sys0, offset + sys0.RowSize,
                               AfterSkipped(fileNumber), entries)
            ELSE LET ft == row[sys0.FileType + 1]
                 IN IF ft = FileTypePlaceholder \/ ft = 0
                    THEN DirectoryLoop(data, sys0, offset + sys0.RowSize,
                                       AfterSkipped(fileNumber), entries)
                    ELSE IF RowPanics(row, sys0)
                    THEN [panic |-> TRUE, entries |-> entries]
                    ELSE DirectoryLoop(data, sys0, offset + sys0.RowSize, fileNumber + 1,
                            Append(entries, FileDirectoryEntry(fileNumber, ft,
                                                RowElemCount(row, sys0))))

parseFileDirectory(data, sys0) == DirectoryLoop(data, sys0, 0, 0, << >>)

\* ------------------------------------------------------------------------
\* PLC.GetFileDirectory, step by step (one action per request to the PLC)
\* ------------------------------------------------------------------------

\* The most bytes one Read Section request of the directory asks for
maxChunk == 80

\* The catalog field of the reply is 10 bytes wide
CatalogWidth == 10

CatalogField(text) == text \o [i \in 1..(CatalogWidth - Len(text)) |-> "NUL"]

\* Catalog fields: the six families, two processors of other families, a
\* field shorter than a prefix, an empty field, a bare prefix
Catalogs ==
    { <<"1", "7", "4", "7", "-", "L", "5", "5", "2", " ">>,
      <<"1", "7", "6", "1", "-", "L", "1", "6", "B", "W">>,
      CatalogField(<<"1", "7", "6", "2", "-", "L", "3", "2">>),
      CatalogField(<<"1", "7", "6", "3", "-", "L", "1", "6">>),
      CatalogField(<<"1", "7", "6", "4", "-", "L", "S", "P">>),
      CatalogField(<<"1", "7", "6", "6", "-", "L", "3", "2">>),
      CatalogField(<<"1", "7", "5", "6", "-", "L", "6", "1">>),
      CatalogField(<<"1", "7", "8", "5", "-", "L", "2", "0", "E">>),
      CatalogField(<<"A", "B", "C">>),
      CatalogField(<< >>),
      CatalogField(<<"1", "7", "4", "7">>) }

\* A directory row of the PLC: a file type and an element count
DirectoryRow(ft, count) == [ft |-> ft, count |-> count]

\* Directories: none, three rows with a deleted file, nine rows (two
\* requests), sixteen rows (two requests of 80 bytes, or 80 and 48)
Directories ==
    { << >>,
      [i \in 1..16 |-> DirectoryRow(FileTypeInteger, i)],
      << DirectoryRow(FileTypeInteger, 50), DirectoryRow(FileTypePlaceholder, 0),
         DirectoryRow(FileTypeTimer, 5) >>,
      [i \in 1..9 |-> IF i = 4 THEN DirectoryRow(0, 0)
                      ELSE DirectoryRow(FileTypeInteger, 300 + i)] }

Plcs == [catalog : Catalogs, rows : Directories, sizeDelta : {-5, 0, 3}]

\* The bytes of a row under a layout: the type at the FileType offset, the
\* count at the SizeElement offset where the row has room for it
RowBytes(sys0, r) ==
    [i \in 1..sys0.RowSize |->
        IF i - 1 = sys0.FileType THEN r.ft
        ELSE IF i - 1 = sys0.SizeElement THEN r.count % 256
        ELSE IF i - 1 = sys0.SizeElement + 1 THEN r.count \div 256
        ELSE 17]

\* The directory of the PLC as bytes
DirectoryBytes(sys0, rows) ==
    [b \in 1..(Len(rows) * sys0.RowSize) |->
        RowBytes(sys0, rows[((b - 1) \div sys0.RowSize) + 1])[((b - 1) % sys0.RowSize) + 1]]

\* The first word of system file 0: the size of the file
SizeWord(sys0, p) ==
    (sys0.SizeConst + sys0.FilePosition + Len(p.rows) * sys0.RowSize + p.sizeDelta) % Word16

\* size bytes of system file 0 from offset on
SectionData(sys0, p, offset, size) ==
    LET dir == DirectoryBytes(sys0, p.rows)
    IN [b \in 1..size |->
           LET at == offset + b - 1
           IN IF at < 2 THEN LEBytes16(SizeWord(sys0, p))[at + 1]
              ELSE IF at >= sys0.FilePosition /\ at - sys0.FilePosition < Len(dir)
              THEN dir[at - sys0.FilePosition + 1]
              ELSE 0]

\* The replies to a Read Section request: an error, the data, the data cut short
SectionReplies(sys0, p, offset, size) ==
    { [err |-> TRUE, data |-> << >>],
      [err |-> FALSE, data |-> SectionData(sys0, p, offset, size)],
      [err |-> FALSE, data |-> SubSeq(SectionData(sys0, p, offset, size), 1, size - 1)] }

DiagRequest == [kind |-> "diag", offset |-> 0, size |-> 0]

SectionRequest(offset, size) == [kind |-> "section", offset |-> offset, size |-> size]

Failed(r, e) == [r EXCEPT !.err = e]

\* Step 1: GetProcessorType
DiagnosticStatus ==
    /\ dpc = "idle"
    /\ dwire' = Append(dwire, DiagRequest)
    /\ \E failed \in BOOLEAN :
        IF failed
        THEN dres' = Failed(dres, "GetProcessorType") /\ dpc' = "done"
        ELSE dres' = [dres EXCEPT !.catalog = extractCatalog(plc.catalog)]
                /\ dpc' = "lookup"
    /\ UNCHANGED << plc, readVars, clientVars, lifeVars, fnVars >>

\* Fallback to the SLC layout for a prefix that is not known
LookupWithDefault(prefix) ==
    IF lookupSys0Info(prefix).ok THEN lookupSys0Info(prefix)
    ELSE Sys0Info(1, 35, 79, 10, 0)

\* The layout GetFileDirectory uses for a prefix
LayoutFor(prefix) == lookupSys0Info(prefix)

\* Step 2: the layout of system file 0
LookupLayout ==
    /\ dpc = "lookup"
    /\ LET sys0 == LayoutFor(extractCatalogPrefix(dres.catalog))
       IN IF ~sys0.ok
          THEN dres' = Failed(dres, "unknown processor catalog prefix") /\ dpc' = "done"
          ELSE dres' = [dres EXCEPT !.sys0 = sys0] /\ dpc' = "size"
    /\ UNCHANGED << plc, dwire, readVars, clientVars, lifeVars, fnVars >>

\* Step 3: the size of the directory
ReadDirectorySize ==
    /\ dpc = "size"
    /\ dwire' = Append(dwire, SectionRequest(0, 2))
    /\ \E reply \in SectionReplies(dres.sys0, plc, 0, 2) :
        IF reply.err
        THEN dres' = Failed(dres, "read directory size") /\ dpc' = "done"
        ELSE IF Len(reply.data) < 2
        THEN dres' = Failed(dres, "directory size response too short") /\ dpc' = "done"
        ELSE LET totalSize == LEUint16(reply.data) - dres.sys0.SizeConst
             IN IF totalSize <= dres.sys0.FilePosition
                THEN dres' = Failed(dres, "directory size too small") /\ dpc' = "done"
                ELSE /\ dres' = [dres EXCEPT !.dirSize = totalSize - dres.sys0.FilePosition,
                                             !.offset = 0]
                     /\ dpc' = "chunks"
    /\ UNCHANGED << plc, readVars, clientVars, lifeVars, fnVars >>

\* A chunk of 80 bytes whatever is left
ChunkWhole(offset, dirSize) == maxChunk

\* The size of the chunk at offset: what is left when that is less than 80
ChunkSize(offset, dirSize) ==
    IF offset + maxChunk > dirSize THEN dirSize - offset ELSE maxChunk

\* Step 4: one turn of the loop that reads the directory
ReadDirectoryChunk ==
    /\ dpc = "chunks" /\ dres.offset < dres.dirSize
    /\ LET chunk == ChunkSize(dres.offset, dres.dirSize)
           at == (dres.sys0.FilePosition + dres.offset) % Word16
       IN /\ dwire' = Append(dwire, SectionRequest(at, chunk))
          /\ \E reply \in SectionReplies(dres.sys0, plc, at, chunk) :
                IF reply.err
                THEN dres' = Failed(dres, "read offset") /\ dpc' = "done"
                ELSE /\ dres' = [dres EXCEPT !.dirData = dres.dirData \o reply.data,
                                             !.offset = dres.offset + maxChunk]
                     /\ UNCHANGED dpc
    /\ UNCHANGED << plc, readVars, clientVars, lifeVars, fnVars >>

\* Step 5: the entries
ParseDirectory ==
    /\ dpc = "chunks" /\ ~(dres.offset < dres.dirSize)
    /\ dres' = [dres EXCEPT !.entries = parseFileDirectory(dres.dirData, dres.sys0).entries]
    /\ dpc' = "done"
    /\ UNCHANGED << plc, dwire, readVars, clientVars, lifeVars, fnVars >>

InitDiscovery ==
    /\ ReadIdle /\ ClientFresh(<<0, 0>>, 0) /\ NoInput
    /\ plc \in Plcs

NextDiscovery ==
    \/ DiagnosticStatus
    \/ LookupLayout
    \/ ReadDirectorySize
    \/ ReadDirectoryChunk
    \/ ParseDirectory

SpecDiscovery == InitDiscovery /\ [][NextDiscovery]_vars

\* The prefixes of the processor families discovery knows
RecognizedPrefixes ==
    { <<"1", "7", "4", "7">>, <<"1", "7", "6", "1">>, <<"1", "7", "6", "2">>,
      <<"1", "7", "6", "3">>, <<"1", "7", "6", "4">>, <<"1", "7", "6", "6">> }

\* The Diagnostic Status reply gave a catalog whose first four characters are
\* no recognized prefix, and the call has looked the layout up
UnknownCatalog ==
    /\ dpc \notin {"idle", "lookup"}
    /\ dres.err # "GetProcessorType"
    /\ extractCatalogPrefix(dres.catalog) \notin RecognizedPrefixes

\* C12: when the catalog of the Diagnostic Status reply does not begin with
\* 1747, 1761, 1762, 1763, 1764 or 1766, discovery returns an error and the
\* Diagnostic Status command is the only request it has sent: no Read Section
\* request goes out.
C12_UnknownCatalogSendsNoRead ==
    UnknownCatalog =>
        /\ dpc = "done"
        /\ dres.err = "unknown processor catalog prefix"
        /\ dres.entries = << >>
        /\ dwire = << DiagRequest >>

\* Discovery on a processor of another family (1756) has returned
C12_Witness ==
    /\ UnknownCatalog
    /\ dres.catalog = <<"1", "7", "5", "6", "-", "L", "6", "1">>
    /\ dpc = "done"
    /\ dwire = << DiagRequest >>

\* The Read Section requests of the directory itself: those after the
\* Diagnostic Status request and the read of the size
ChunkRequests == SubSeq(dwire, 3, Len(dwire))

\* The size the PLC reports, less the size constant of the family
TotalSize == SizeWord(dres.sys0, plc) - dres.sys0.SizeConst

\* ceil((totalSize - FilePosition) / 80)
ChunksNeeded == (TotalSize - dres.sys0.FilePosition + 79) \div 80

\* The call has read the size of the directory
SizeRead ==
    /\ dpc \in {"chunks", "done"}
    /\ dres.err \notin {"GetProcessorType", "unknown processor catalog prefix",
                         "read directory size", "directory size response too short"}

\* C24: GetFileDirectory reads the directory range [FilePosition, totalSize)
\* with Read Section requests of at most 80 bytes each, in ascending offset
\* order, contiguous, non-overlapping and covering the range exactly, in
\* ceil((totalSize - FilePosition) / 80) requests, where totalSize is the
\* 16-bit value at offset 0 of system file 0 minus the size constant of the
\* family; if totalSize <= FilePosition or a chunk read fails, discovery
\* returns an error and no entries, and requests no later chunk.
C24_DirectoryReadInChunks ==
    SizeRead =>
        /\ dres.sys0.SizeConst \in {0, 19968}
        /\ \A k \in DOMAIN ChunkRequests :
            /\ ChunkRequests[k].kind = "section"
            /\ ChunkRequests[k].offset = dres.sys0.FilePosition + 80 * (k - 1)
            /\ ChunkRequests[k].size \in 1..80
            /\ ChunkRequests[k].offset + ChunkRequests[k].size <= TotalSize
            /\ k < ChunksNeeded => ChunkRequests[k].size = 80
            /\ k = ChunksNeeded =>
                    ChunkRequests[k].offset + ChunkRequests[k].size = TotalSize
        /\ TotalSize <= dres.sys0.FilePosition =>
                /\ dpc = "done" /\ dres.err = "directory size too small"
                /\ dres.entries = << >> /\ ChunkRequests = << >>
        /\ dres.err = "read offset" =>
                /\ dpc = "done" /\ dres.entries = << >>
                /\ Len(ChunkRequests) = dres.offset \div 80 + 1
        /\ dpc = "done" /\ dres.err = "none" => Len(ChunkRequests) = ChunksNeeded

\* A directory of 93 bytes has been read in two requests, of 80 and 13 bytes
C24_Witness ==
    /\ SizeRead /\ dpc = "done" /\ dres.err = "none"
    /\ dres.sys0.FilePosition = 79
    /\ ChunkRequests = << SectionRequest(79, 80), SectionRequest(159, 13) >>

\* The second chunk read has failed: discovery has returned without entries
\* after two of the three requests
ChunkReadFailed ==
    /\ SizeRead /\ dpc = "done" /\ dres.err = "read offset"
    /\ ChunksNeeded = 3 /\ Len(ChunkRequests) = 2 /\ dres.entries = << >>

\* ------------------------------------------------------------------------
\* parseFileDirectory applied to directories under built-in and other layouts
\* ------------------------------------------------------------------------

\* The most complete rows of a directory
MaxRows == 3

\* The four built-in layouts; the layout of the package's tests; one whose
\* count is the last byte of the row; one whose type offset lies outside the
\* row; one whose count offset is the length of the row
Layouts ==
    { lookupSys0Info(<<"1", "7", "4", "7">>), lookupSys0Info(<<"1", "7", "6", "1">>),
      lookupSys0Info(<<"1", "7", "6", "2">>), lookupSys0Info(<<"1", "7", "6", "6">>),
      Sys0Info(0, 2, 0, 4, 0), Sys0Info(0, 3, 0, 4, 0), Sys0Info(5, 2, 0, 4, 0),
      Sys0Info(0, 4, 0, 4, 0) }

RowMenu ==
    { DirectoryRow(ft, count) : ft \in {0, FileTypePlaceholder, FileTypeInteger, FileTypeTimer},
                                count \in {50, 300} }

RECURSIVE RowLists(_)
RowLists(n) ==
    IF n = 0 THEN { << >> }
    ELSE RowLists(n - 1)
            \cup { Append(l, r) : l \in { x \in RowLists(n - 1) : Len(x) = n - 1 },
                                  r \in RowMenu }

\* A directory of complete rows, with or without the beginning of a further row
DirectoryInputs ==
    { [sys0 |-> sys0,
       data |-> DirectoryBytes(sys0, rows)
                \o SubSeq(RowBytes(sys0, DirectoryRow(FileTypeInteger, 50)), 1, partial)] :
      sys0 \in Layouts, rows \in RowLists(MaxRows), partial \in {0, 3} }

ApplyParseFileDirectory ==
    /\ ~output.done
    /\ output' = [done |-> TRUE, value |-> parseFileDirectory(input.data, input.sys0)]
    /\ UNCHANGED << input, readVars, clientVars, lifeVars, discVars >>

InitDirectory ==
    /\ ReadIdle /\ ClientFresh(<<0, 0>>, 0) /\ NoPlc
    /\ input \in DirectoryInputs
    /\ output = NoOutput

SpecDirectory == InitDirectory /\ [][ApplyParseFileDirectory]_vars

\* Row k (0-based) of the directory given to parseFileDirectory
InputRow(k) ==
    SubSeq(input.data, k * input.sys0.RowSize + 1, (k + 1) * input.sys0.RowSize)

\* The complete rows of the input that have a file-type byte other than 0x81
\* and 0x00, by their zero-based index
KeptRows ==
    { k \in 0..((Len(input.data) \div input.sys0.RowSize) - 1) :
        /\ input.sys0.FileType < input.sys0.RowSize
        /\ InputRow(k)[input.sys0.FileType + 1] \notin {129, 0} }

\* C13: whenever parseFileDirectory returns, it has emitted exactly one entry
\* for every complete row whose file-type byte is neither 0x81 nor 0x00, in
\* row order, each with the zero-based index of its row as file number (so
\* the numbers increase strictly and keep the gaps of the skipped rows), and
\* nothing for a trailing partial row.
C13_OneEntryPerKeptRow ==
    (output.done /\ ~output.value.panic) =>
        LET e == output.value.entries
        IN /\ Len(e) = Cardinality(KeptRows)
           /\ \A i \in 1..Len(e) :
                /\ e[i].FileNumber \in KeptRows
                /\ e[i].FileType = InputRow(e[i].FileNumber)[input.sys0.FileType + 1]
           /\ \A i, j \in 1..Len(e) : i < j => e[i].FileNumber < e[j].FileNumber

\* A directory under the SLC layout whose second row is skipped and that ends
\* in a partial row: files 0 and 2 are emitted
C13_Witness ==
    /\ output.done /\ ~output.value.panic
    /\ input.sys0 = lookupSys0Info(<<"1", "7", "4", "7">>)
    /\ Len(input.data) = 33
    /\ Len(output.value.entries) = 2
    /\ output.value.entries[1].FileNumber = 0
    /\ output.value.entries[2].FileNumber = 2

\* C14: the element count of every emitted entry is the 16-bit little-endian
\* value at the SizeElement offset of its row when the row has two bytes
\* there, else the single byte at that offset, under the built-in layouts and
\* under any other.
C14_ElementCountFromRow ==
    (output.done /\ ~output.value.panic) =>
        \A i \in 1..Len(output.value.entries) :
            LET e == output.value.entries[i]
                row == InputRow(e.FileNumber)
                at == input.sys0.SizeElement
            IN IF at + 1 < Len(row)
               THEN e.ElementCount = row[at + 1] + 256 * row[at + 2]
               ELSE at < Len(row) /\ e.ElementCount = row[at + 1]

\* Under a layout whose SizeElement offset lies in the row the count is read
\* as C14 says; under a built-in layout every count is 0
ElementCountAsCoded ==
    (output.done /\ ~output.value.panic) =>
        \A i \in 1..Len(output.value.entries) :
            LET e == output.value.entries[i]
                row == InputRow(e.FileNumber)
                at == input.sys0.SizeElement
            IN IF at + 1 < Len(row)
               THEN e.ElementCount = row[at + 1] + 256 * row[at + 2]
               ELSE IF at < Len(row) THEN e.ElementCount = row[at + 1]
               ELSE e.ElementCount = 0

\* C28: parseFileDirectory never reads outside the current row: for every
\* layout with RowSize >= 1, every FileType offset and SizeElement offset in
\* 0..255 (including offsets equal to RowSize or beyond it) and every data
\* buffer, it returns normally with no out-of-range access.
C28_NeverReadsOutsideRow ==
    output.done => ~output.value.panic

\* What the code does instead: the call panics exactly when the SizeElement
\* offset equals RowSize and some complete row is kept, and then it has the
\* entries of no row from the first kept one on
PanicsAsCoded ==
    output.done =>
        /\ output.value.panic
                <=> (input.sys0.SizeElement = input.sys0.RowSize /\ KeptRows # {})
        /\ output.value.panic => output.value.entries = << >>

\* A directory of one integer file under a layout whose count offset is the
\* row size has made the call panic
PanicAtRowEnd ==
    /\ output.done /\ output.value.panic
    /\ input.sys0 = Sys0Info(0, 4, 0, 4, 0)
    /\ Len(input.data) = 4 /\ input.data[1] = FileTypeInteger

\* A layout whose FileType offset lies beyond the row has every row skipped
FileTypeBeyondRow ==
    /\ output.done /\ ~output.value.panic
    /\ input.sys0.FileType >= input.sys0.RowSize
    /\ Len(input.data) >= 2 * input.sys0.RowSize
    /\ output.value.entries = << >>

\* ------------------------------------------------------------------------
\* Client.Write of words, whole elements and control bits
\* ------------------------------------------------------------------------

\* The addresses written: whole Timer, Counter and Control elements, their
\* words, control bits of theirs, an integer and a float, and a text that is
\* no address
WriteTargets ==
    { <<"T", "4", ":", "0">>, <<"T", "4", ":", "0", ".", "P", "R", "E">>, <<"T", "4", ":", "0", ".", "A", "C", "C">>,
      <<"T", "4", ":", "0", ".", "E", "N">>, <<"T", "4", ":", "0", ".", "1">>, <<"C", "5", ":", "2">>,
      <<"C", "5", ":", "2", ".", "P", "R", "E">>, <<"C", "5", ":", "2", ".", "D", "N">>, <<"R", "6", ":", "0">>,
      <<"R", "6", ":", "0", ".", "L", "E", "N">>, <<"R", "6", ":", "0", ".", "P", "O", "S">>, <<"R", "6", ":", "0", ".", "E", "N">>,
      <<"N", "7", ":", "0">>, <<"F", "8", ":", "0">>, <<"N", "7">> }

\* The values written: int16(5), int32(70000), true, false, float32(2.5), "on"
\* and nil
WriteValues ==
    { Int16Value(5), Int32Value(70000), BoolValue(TRUE), BoolValue(FALSE),
      Float32Value(<<0, 0, 32, 64>>), StringValue(<<111, 110>>), NilValue }

WriteElements == { ElemKey(ParseAddress(a)) : a \in { t \in WriteTargets : ParseAddress(t).ok } }

\* One Write on a new session
InitWrite ==
    /\ ReadIdle
    /\ \E w \in StartWords : ClientOver(WriteElements, <<0, 0>>, w)
    /\ NoInput /\ NoPlc

WriteOnce(p) ==
    /\ calls = 0
    /\ \E a \in WriteTargets, v \in WriteValues : CallWrite(p, a, v)

NextWrite ==
    \/ \E p \in Procs : WriteOnce(p)
    \/ \E p \in Procs : NextTNS(p)
    \/ \E p \in Procs : Send(p)
    \/ PlcServe
    \/ \E p \in Procs : Recv(p)

SpecWrite == InitWrite /\ [][NextWrite]_vars

\* A write request that targets the status word of a Timer, Counter or Control
WritesControlWord(c) ==
    c.kind = "write" /\ IsComplexType(c.key[1]) /\ c.SubElement = 0

\* C15: no Write call results in a PCCC write request that targets sub-element
\* 0, the status word, of a Timer, Counter or Control element, whether the
\* address is the bare element or a named control bit.
C15_NoWriteToControlWord ==
    \A i \in DOMAIN sent : ~WritesControlWord(sent[i])

\* What the code does instead: a bare element is never written, and a control
\* bit is written by a read of the status word and a write-back of it
ControlWordWrittenByBitWrites ==
    \A i \in DOMAIN sent :
        WritesControlWord(sent[i]) =>
            /\ i > 1 /\ sent[i - 1].kind = "read" /\ sent[i - 1].key = sent[i].key
            /\ sent[i - 1].SubElement = 0
            /\ \A p \in Procs : cur[p].sentAt = i => cur[p].op = "writeBit"
            /\ \A d \in returned : d.key = sent[i].key => d.op = "writeBit"

\* A call on a Timer, Counter or Control address without sub-element and bit
BareElement(d) == IsComplexType(d.key[1]) /\ d.sub = 0 /\ d.bit < 0

\* A call on PRE, ACC, LEN or POS
WordOfElement(d) == IsComplexType(d.key[1]) /\ d.sub \in {1, 2} /\ d.bit < 0

\* The write request of a returned call
RequestOf(d, c) ==
    /\ c.kind = "write" /\ c.key = d.key /\ c.SubElement = d.sub
    /\ c.size = 2 /\ Len(c.data) = 2
    /\ Int16(LEUint16(c.data)) =
            CASE d.value.k = "bool" -> IF d.value.v THEN 1 ELSE 0
              [] d.value.k = "float32" -> TruncFloat32(d.value.bits)
              [] OTHER -> Int16(d.value.v % 65536)

\* C16: a Write to a Timer, Counter or Control address that names no
\* sub-element and no bit returns an error for every value and sends no
\* request; a Write of a numeric or boolean value to PRE, ACC, LEN or POS is
\* sent as one request whose data is the value as one 16-bit word.
C16_BareElementRejectedWordSent ==
    /\ \A p \in Procs : cur[p].op = "write" => ~BareElement(
            [key |-> ElemKey(cur[p].addr), sub |-> cur[p].addr.SubElement,
             bit |-> cur[p].addr.BitNumber])
    /\ \A d \in returned :
        /\ BareElement(d) => d.err = "cannot encode" /\ sent = << >>
        /\ WordOfElement(d) /\ d.value.k \in {"int16", "int32", "bool", "float32"} =>
                /\ d.err \in {"none", "failed"}
                /\ Len(sent) = 1 /\ RequestOf(d, sent[1])

\* Write("T4:0", int16(5)) has returned its error and nothing was sent
C16_Witness ==
    \E d \in returned :
        /\ d.key = << FileTypeTimer, 4, 0 >> /\ BareElement(d)
        /\ d.value = Int16Value(5) /\ d.err = "cannot encode" /\ sent = << >>

\* Write("R6:0.POS", int32(70000)) has returned nil and the PLC holds 4464
WordWritten ==
    \E d \in returned :
        /\ d.key = << FileTypeControl, 6, 0 >> /\ d.sub = 2
        /\ d.value = Int32Value(70000) /\ d.err = "none"
        /\ mem[d.key][3] = 4464


\* The PLC holds what it held when the session began
MemAtStart ==
    \E w \in StartWords :
        mem = [k \in WriteElements |->
                [i \in 1..(ElementSize(k[1]) \div SubElementSize) |->
                    IF i = 1 THEN w ELSE 0]]

\* C27: a Write that fails before transmission sends no write request, so PLC
\* memory is left unchanged: this holds for an invalid address, for a value
\* whose type cannot be converted to the target type (for a bit write the
\* value is checked before the word is read, so no read is sent either), and
\* for a bit write whose read of the containing word fails or returns fewer
\* than 2 bytes.
C27_FailedWriteSendsNothing ==
    \A d \in returned :
        /\ d.value.k \in {"string", "nil"}
                => d.err \in {"invalid address", "cannot convert", "cannot encode"}
        /\ d.err \in {"invalid address", "cannot convert", "cannot encode"}
                => sent = << >> /\ MemAtStart
        /\ d.err = "cannot convert" <=> (d.op = "writeBit" /\ d.value.k \in {"string", "nil"})
        /\ d.err \in {"bit write read-back failed", "bit write: short read"}
                => /\ d.op = "writeBit"
                   /\ Len(sent) = 1 /\ sent[1].kind = "read"
                   /\ replies = << >> /\ stream = << >>
                   /\ MemAtStart

\* Write("T4:0.EN", true) has returned the error of a read that gave one byte
C27_Witness ==
    \E d \in returned :
        /\ d.op = "writeBit" /\ d.key = << FileTypeTimer, 4, 0 >> /\ d.bit = 15
        /\ d.value = BoolValue(TRUE)
        /\ d.err = "bit write: short read"
        /\ Len(sent) = 1 /\ sent[1].kind = "read" /\ MemAtStart

\* Write("N7", int16(5)) has returned its error and nothing was sent
InvalidAddressRefused ==
    \E d \in returned :
        d.err = "invalid address" /\ d.value = Int16Value(5) /\ sent = << >>

\* Write("T4:0.EN", "on") has returned its error and nothing was sent
BitValueRefused ==
    \E d \in returned :
        /\ d.op = "writeBit" /\ d.value = StringValue(<<111, 110>>)
        /\ d.err = "cannot convert" /\ sent = << >>

\* Write("N7:0", nil) has returned its error and nothing was sent
NilRefused ==
    \E d \in returned :
        /\ d.key = << FileTypeInteger, 7, 0 >> /\ d.value = NilValue
        /\ d.err = "cannot encode" /\ sent = << >>

\* A bit write whose read failed has returned and no write was sent
ReadBackFailed ==
    \E d \in returned :
        d.err = "bit write read-back failed" /\ Len(sent) = 1 /\ MemAtStart

\* ------------------------------------------------------------------------
\* The compact encoding of address fields (appendCompactValue)
\* ------------------------------------------------------------------------

\* An encoder that sends 255 as a single byte
AppendCompactThrough255(buf, value) ==
    IF value <= 255 THEN Append(buf, value % 256)
    ELSE Append(buf, 255) \o LEBytes16(value)

\* appendCompactValue(buf, value)
appendCompactValue(buf, value) ==
    IF value < 255 THEN Append(buf, value)
    ELSE Append(buf, 255) \o LEBytes16(value)

\* The decoder that mirrors the encoder, reading data from offset at (0-based):
\* the value and the number of bytes consumed
decodeCompactValue(data, at) ==
    IF at >= Len(data) THEN [ok |-> FALSE, value |-> 0, n |-> 0]
    ELSE IF data[at + 1] # 255 THEN [ok |-> TRUE, value |-> data[at + 1], n |-> 1]
    ELSE IF at + 3 > Len(data) THEN [ok |-> FALSE, value |-> 0, n |-> 0]
    ELSE [ok |-> TRUE, value |-> LEUint16(SubSeq(data, at + 2, at + 3)), n |-> 3]

\* The fields already in the command, and the bytes that follow the field
CompactPrefixes == { << >>, << 15, 0 >> }
CompactSuffixes == { << >>, << 255 >> }

CompactInput(buf, v, rest) == [buf |-> buf, value |-> v, rest |-> rest]

ApplyAppendCompactValue ==
    /\ ~output.done
    /\ output' = [done |-> TRUE, value |-> appendCompactValue(input.buf, input.value)]
    /\ UNCHANGED << input, readVars, clientVars, lifeVars, discVars >>

InitCompact ==
    /\ ReadIdle /\ ClientFresh(<<0, 0>>, 0) /\ NoPlc
    /\ \E buf \in CompactPrefixes, v \in 0..(Word16 - 1), rest \in CompactSuffixes :
            input = CompactInput(buf, v, rest)
    /\ output = NoOutput

SpecCompact == InitCompact /\ [][ApplyAppendCompactValue]_vars

\* The bytes appendCompactValue has added to buf
Emitted == SubSeq(output.value, Len(input.buf) + 1, Len(output.value))

\* C17: for every v in 0..65535 the compact encoding of v is the single byte
\* v when v < 255 and the three bytes 0xFF, low byte, high byte otherwise (255
\* takes three bytes); the mirrored decoder, applied where the field begins,
\* returns v and consumes exactly the bytes the encoder produced, whatever
\* precedes and follows them.
C17_CompactEncodingDecodable ==
    output.done =>
        /\ SubSeq(output.value, 1, Len(input.buf)) = input.buf
        /\ input.value < 255 => Emitted = << input.value >>
        /\ input.value >= 255 =>
                Emitted = << 255, input.value % 256, input.value \div 256 >>
        /\ Len(Emitted) = 1 <=> input.value < 255
        /\ decodeCompactValue(output.value \o input.rest, Len(input.buf)) =
                [ok |-> TRUE, value |-> input.value, n |-> Len(Emitted)]

\* 255 has been encoded after two other fields, in three bytes
C17_Witness ==
    /\ output.done /\ input.value = 255 /\ input.buf = << 15, 0 >>
    /\ output.value = << 15, 0, 255, 255, 0 >>

\* ------------------------------------------------------------------------
\* ParseAddress and ReadSize applied to addresses with bits and sub-elements
\* ------------------------------------------------------------------------

\* The file specifiers, and what follows the element number: nothing, a bit
\* suffix or a sub-element suffix
FileSpecs ==
    { <<"T", "4">>, <<"C", "5">>, <<"R", "6">>, <<"N", "7">>, <<"F", "8">>,
      <<"B", "3">>, <<"L", "1", "0">>, <<"S", "T", "9">>, <<"t", "4">> }

BitSuffixes ==
    { <<"/", "0">>, <<"/", "7">>, <<"/", "1", "5">>, <<"/", "1", "6">>, <<"/", "1", "7">>,
      <<"/", "9", "9">>, <<"/", "-", "1">>, <<"/", "-", "1", "6">>, <<"/">>, <<"/", "x">> }

SubSuffixes ==
    { <<".", "P", "R", "E">>, <<".", "A", "C", "C">>, <<".", "L", "E", "N">>, <<".", "P", "O", "S">>,
      <<".", "E", "N">>, <<".", "T", "T">>, <<".", "D", "N">>, <<".", "C", "U">>,
      <<".", "C", "D">>, <<".", "O", "V">>, <<".", "U", "N">>, <<".", "E", "U">>,
      <<".", "E", "M">>, <<".", "E", "R">>, <<".", "U", "L">>, <<".", "I", "N">>,
      <<".", "F", "D">>, <<".", "p", "r", "e">>, <<".", "d", "n">>, <<".", "0">>,
      <<".", "1">>, <<".", "2">>, <<".", "3">>, <<".", "7", "0", "0", "0", "0">>,
      <<".", "X", "X">>, <<".", "P", "R">>, <<".", "P", "R", "E", "X">>, <<".">> }

AddressInputs ==
    { [spec |-> spec, suffix |-> suffix, text |-> spec \o << ":", "0" >> \o suffix] :
        spec \in FileSpecs, suffix \in { << >> } \cup BitSuffixes \cup SubSuffixes }

\* ParseAddress(text), then ReadSize of the address it returns
ApplyParseAddress ==
    /\ ~output.done
    /\ LET a == ParseAddress(input.text)
       IN output' = [done |-> TRUE, value |-> a,
                     size |-> IF a.ok THEN ReadSize(a) ELSE 0]
    /\ UNCHANGED << input, readVars, clientVars, lifeVars, discVars >>

InitAddress ==
    /\ ReadIdle /\ ClientFresh(<<0, 0>>, 0) /\ NoPlc
    /\ input \in AddressInputs
    /\ output = NoOutput

SpecAddress == InitAddress /\ [][ApplyParseAddress]_vars

\* The names of the control bits by type letter, and the bits they stand for
ControlBitNames(letter) ==
    CASE letter = "T" -> << <<"E", "N">>, <<"T", "T">>, <<"D", "N">> >>
      [] letter = "C" -> << <<"C", "U">>, <<"C", "D">>, <<"D", "N">>, <<"O", "V">>,
                            <<"U", "N">> >>
      [] letter = "R" -> << <<"E", "N">>, <<"E", "U">>, <<"D", "N">>, <<"E", "M">>,
                            <<"E", "R">>, <<"U", "L">>, <<"I", "N">>, <<"F", "D">> >>
      [] OTHER -> << >>

\* The names of the words by type letter: sub-elements 1 and 2
WordNames(letter) ==
    CASE letter \in {"T", "C"} -> << <<"P", "R", "E">>, <<"A", "C", "C">> >>
      [] letter = "R" -> << <<"L", "E", "N">>, <<"P", "O", "S">> >>
      [] OTHER -> << >>

\* The type letter of the input and the name after its dot, in upper case
InputLetter == ToUpper(input.spec)[1]
InputName == ToUpper(Tail(input.suffix))
HasName == input.suffix # << >> /\ input.suffix[1] = "."
HasBit == input.suffix # << >> /\ input.suffix[1] = "/"

\* The index of a name in a list of names (0: not there)
NameIndex(names, name) ==
    IF \E i \in DOMAIN names : names[i] = name
    THEN CHOOSE i \in DOMAIN names : names[i] = name
    ELSE 0

NamesControlBit == HasName /\ NameIndex(ControlBitNames(InputLetter), InputName) > 0
NamesWord == HasName /\ NameIndex(WordNames(InputLetter), InputName) > 0

\* C18: every address ParseAddress accepts has bit = -1 or 0 <= bit <= 15; an
\* explicit /15 is accepted, /16, any larger and any negative bit index is
\* rejected, and every named control bit of a Timer, Counter or Control
\* resolves to a bit in 8..15.
C18_BitWithinWord ==
    output.done =>
        /\ output.value.ok =>
                output.value.BitNumber = -1 \/ output.value.BitNumber \in 0..15
        /\ input.suffix = <<"/", "1", "5">> =>
                output.value.ok /\ output.value.BitNumber = 15
        /\ input.suffix \in { <<"/", "1", "6">>, <<"/", "1", "7">>, <<"/", "9", "9">>,
                              <<"/", "-", "1">>, <<"/", "-", "1", "6">> } =>
                ~output.value.ok
        /\ NamesControlBit => output.value.ok /\ output.value.BitNumber \in 8..15

\* T4:0/15 has been accepted with bit 15
C18_Witness ==
    /\ output.done /\ input.text = <<"T", "4", ":", "0", "/", "1", "5">>
    /\ output.value.ok /\ output.value.BitNumber = 15

\* N7:0/16 has been rejected
BitSixteenRejected ==
    /\ output.done /\ input.text = <<"N", "7", ":", "0", "/", "1", "6">>
    /\ ~output.value.ok

\* C19: for every parsed address, ReadSize is 2 when the address has a bit or
\* an explicit non-zero sub-element, whatever its file type; it is the full
\* element size, 6, for a Timer, Counter or Control address with sub-element
\* 0 and no bit; otherwise it is the element size of the file type.
C19_ReadSizeRule ==
    output.done /\ output.value.ok =>
        output.size =
            IF output.value.BitNumber >= 0 \/ output.value.SubElement # 0 THEN 2
            ELSE IF IsComplexType(output.value.FileType) THEN 6
            ELSE ElementSize(output.value.FileType)

\* What the code does: a sub-element changes the size of a Timer, Counter or
\* Control address only
ReadSizeAsCoded ==
    output.done /\ output.value.ok =>
        output.size =
            IF output.value.BitNumber >= 0 THEN 2
            ELSE IF IsComplexType(output.value.FileType)
            THEN IF output.value.SubElement # 0 THEN 2 ELSE 6
            ELSE ElementSize(output.value.FileType)

\* C20: ParseAddress resolves a named sub-element either to a sub-element
\* index with bit -1 (PRE 1, ACC 2 of a Timer or Counter; LEN 1, POS 2 of a
\* Control) or to a bit of the control word with sub-element 0 (Timer EN, TT,
\* DN: 15, 14, 13; Counter CU, CD, DN, OV, UN: 15..11; Control EN, EU, DN, EM,
\* ER, UL, IN, FD: 15..8); a name that is neither listed for the file type
\* nor a number is rejected.
C20_NamedSubElements ==
    output.done /\ HasName =>
        /\ NamesWord =>
                /\ output.value.ok /\ output.value.BitNumber = -1
                /\ output.value.SubElement = NameIndex(WordNames(InputLetter), InputName)
        /\ NamesControlBit =>
                /\ output.value.ok /\ output.value.SubElement = 0
                /\ output.value.BitNumber =
                        16 - NameIndex(ControlBitNames(InputLetter), InputName)
        /\ ~NamesWord /\ ~NamesControlBit /\ ~AllDigits(InputName) => ~output.value.ok
        /\ output.value.ok =>
                \/ output.value.BitNumber = -1
                \/ output.value.SubElement = 0 /\ output.value.BitNumber \in 8..15

\* C5:0.UN has been resolved to bit 11 of the control word
C20_Witness ==
    /\ output.done /\ input.text = <<"C", "5", ":", "0", ".", "U", "N">>
    /\ output.value.ok /\ output.value.SubElement = 0 /\ output.value.BitNumber = 11

\* T4:0.CU, a counter's name on a timer, has been rejected
ForeignNameRejected ==
    /\ output.done /\ input.text = <<"T", "4", ":", "0", ".", "C", "U">>
    /\ ~output.value.ok

\* ------------------------------------------------------------------------
\* encodeValue, then decodeValue of what it gave
\* ------------------------------------------------------------------------

\* The longest string encoded
MaxStringBytes == 85

\* A string of n bytes, all letters
Letters(n) == [i \in 1..n |-> 65 + (i % 26)]

MinInt32 == (0 - 2147483647) - 1

\* An address of each type and values of its Go type: int16, int32, float32
\* bit patterns (0, -0, 2.5, -1, the largest, infinity, a NaN, a denormal) and
\* strings of 0..MaxStringBytes bytes
CodecInputs ==
    { [name |-> <<"N", "7", ":", "0">>, value |-> Int16Value(v)] :
        v \in {-32768, -256, -1, 0, 1, 5, 255, 256, 32767} }
    \cup { [name |-> <<"L", "1", "0", ":", "0">>, value |-> Int32Value(v)] :
        v \in {MinInt32, -65536, -1, 0, 1, 255, 70000, 16777216, 2147483647} }
    \cup { [name |-> <<"F", "8", ":", "0">>, value |-> Float32Value(b)] :
        b \in { <<0, 0, 0, 0>>, <<0, 0, 0, 128>>, <<0, 0, 32, 64>>, <<0, 0, 128, 191>>,
                <<255, 255, 127, 127>>, <<0, 0, 128, 127>>, <<1, 0, 192, 127>>,
                <<1, 0, 0, 0>> } }
    \cup { [name |-> <<"S", "T", "9", ":", "0">>, value |-> StringValue(Letters(n))] :
        n \in 0..MaxStringBytes }

\* encodeValue(addr, value), then decodeValue(addr, data) of the bytes
ApplyEncodeDecode ==
    /\ ~output.done
    /\ LET addr == ParseAddress(input.name)
           enc == encodeValue(addr, input.value)
       IN output' = [done |-> TRUE, enc |-> enc,
                     value |-> IF enc.ok THEN decodeValue(addr, enc.data) ELSE NilValue]
    /\ UNCHANGED << input, readVars, clientVars, lifeVars, discVars >>

InitCodec ==
    /\ ReadIdle /\ ClientFresh(<<0, 0>>, 0) /\ NoPlc
    /\ input \in CodecInputs
    /\ output = NoOutput

SpecCodec == InitCodec /\ [][ApplyEncodeDecode]_vars

\* C21: for Integer, Long, Float and String addresses, decoding the bytes
\* produced by encoding a value x of the target type returns x; for a string
\* longer than 82 bytes it returns the first 82 bytes, and the encoded length
\* field never exceeds 82.
C21_CodecRoundTrip ==
    output.done =>
        /\ output.enc.ok
        /\ IF input.value.k = "string"
           THEN /\ LEUint16(SubSeq(output.enc.data, 1, 2)) <= 82
                /\ LEUint16(SubSeq(output.enc.data, 1, 2)) = Len(output.enc.data) - 2
                /\ output.value =
                      IF Len(input.value.v) > 82
                      THEN StringValue(SubSeq(input.value.v, 1, 82))
                      ELSE input.value
           ELSE output.value = input.value

\* A string of 83 bytes has come back as its first 82 bytes
C21_Witness ==
    /\ output.done /\ input.value.k = "string" /\ Len(input.value.v) = 83
    /\ output.value = StringValue(SubSeq(input.value.v, 1, 82))
    /\ Len(output.enc.data) = 84

\* int32(-2^31) has come back from its four bytes
LongRoundTrip ==
    /\ output.done /\ input.value = Int32Value(MinInt32)
    /\ output.enc.data = <<0, 0, 0, 128>> /\ output.value = input.value

\* ------------------------------------------------------------------------
\* decodeValue of whole Timer, Counter and Control elements
\* ------------------------------------------------------------------------

\* The longest reply decoded: a whole element and two bytes more
MaxElementBytes == 8

\* Elements as the PLC holds them: a control word, word 1 and word 2, and the
\* bytes of another word after them
ElementImages ==
    { LEBytes16(w0) \o LEBytes16(w1) \o LEBytes16(w2)
        \o [i \in 1..(MaxElementBytes - 6) |-> 7] :
        w0 \in {0, 65535, 40960, 2304, 21760}, w1 \in {5, 65535}, w2 \in {0, 32768} }

ElementInputs ==
    { [name |-> name, data |-> SubSeq(image, 1, n)] :
        name \in { <<"T", "4", ":", "0">>, <<"C", "5", ":", "0">>, <<"R", "6", ":", "0">> },
        image \in ElementImages, n \in 0..MaxElementBytes }

\* decodeValue(addr, data) of a whole element
ApplyDecodeValue ==
    /\ ~output.done
    /\ output' = [done |-> TRUE,
                  value |-> decodeValue(ParseAddress(input.name), input.data)]
    /\ UNCHANGED << input, readVars, clientVars, lifeVars, discVars >>

InitDecode ==
    /\ ReadIdle /\ ClientFresh(<<0, 0>>, 0) /\ NoPlc
    /\ input \in ElementInputs
    /\ output = NoOutput

SpecDecode == InitDecode /\ [][ApplyDecodeValue]_vars

\* The file type of the element decoded, its control-bit names and word names
DecodedType == ParseAddress(input.name).FileType
DecodedBitNames == ControlBitNames(ToUpper(input.name)[1])
DecodedWordNames == WordNames(ToUpper(input.name)[1])

\* A name as the key of the map
KeyOf(name) ==
    CASE Len(name) = 2 -> name[1] \o name[2]
      [] OTHER -> name[1] \o name[2] \o name[3]

\* Word i (0-based) of the data, signed
DataWord(i) == Int16(LEUint16(SubSeq(input.data, 2 * i + 1, 2 * i + 2)))

\* The booleans of the map are the bits of the control word
BitsAsControlWord(m) ==
    \A i \in DOMAIN DecodedBitNames :
        /\ KeyOf(DecodedBitNames[i]) \in DOMAIN m
        /\ m[KeyOf(DecodedBitNames[i])] =
                BoolValue(BitOf(LEUint16(SubSeq(input.data, 1, 2)), 16 - i) = 1)

\* C22: decoding a full Timer, Counter or Control element yields a mapping
\* with a fixed key set per file type, whatever the length of the data: the
\* key control, the two word names and the control-bit names of the type;
\* each boolean is the corresponding bit of the control word and the two
\* words are the signed 16-bit words 1 and 2.
C22_FixedKeySet ==
    output.done =>
        /\ output.value.k = "map"
        /\ DOMAIN output.value.m =
                {"control"}
                \cup { KeyOf(DecodedBitNames[i]) : i \in DOMAIN DecodedBitNames }
                \cup { KeyOf(DecodedWordNames[i]) : i \in DOMAIN DecodedWordNames }
        /\ BitsAsControlWord(output.value.m)
        /\ \A i \in DOMAIN DecodedWordNames :
                output.value.m[KeyOf(DecodedWordNames[i])] = Int16Value(DataWord(i))

\* What the code does: no value for no data, an empty map for one byte, the
\* control bits from two bytes on, word 1 from four bytes on and word 2 from
\* six bytes on; never a key control
DecodedAsCoded ==
    output.done =>
        IF Len(input.data) = 0 THEN output.value = NilValue
        ELSE /\ output.value.k = "map"
             /\ "control" \notin DOMAIN output.value.m
             /\ DOMAIN output.value.m =
                    (IF Len(input.data) >= 2
                     THEN { KeyOf(DecodedBitNames[i]) : i \in DOMAIN DecodedBitNames }
                     ELSE {})
                    \cup { KeyOf(DecodedWordNames[i]) :
                             i \in { j \in DOMAIN DecodedWordNames :
                                        Len(input.data) >= 2 * j + 2 } }
             /\ Len(input.data) >= 2 => BitsAsControlWord(output.value.m)
             /\ \A i \in DOMAIN DecodedWordNames :
                    Len(input.data) >= 2 * i + 2 =>
                        output.value.m[KeyOf(DecodedWordNames[i])] = Int16Value(DataWord(i))

\* A whole counter of six bytes has been decoded into seven keys
WholeCounterDecoded ==
    /\ output.done /\ DecodedType = FileTypeCounter /\ Len(input.data) = 6
    /\ DOMAIN output.value.m = {"CU", "CD", "DN", "OV", "UN", "PRE", "ACC"}

\* ------------------------------------------------------------------------
\* pcccContiguousRuns applied to sorted request indices
\* ------------------------------------------------------------------------

\* The most requests of one group
MaxRunLen == 4

\* The element numbers of the requests
RunElements == {0, 1, 2, 4, 65534, 65535}

\* The requests of a group, by element number, and their indices as sort.Slice
\* leaves them
RunInput(elems, order) ==
    [parsed |-> [i \in DOMAIN elems |-> [Element |-> elems[i]]], sortedIndices |-> order]

\* pcccContiguousRuns(sortedIndices, elemOf)
ApplyContiguousRuns ==
    /\ ~output.done
    /\ output' = [done |-> TRUE,
                  value |-> pcccContiguousRuns(input.sortedIndices, input.parsed)]
    /\ UNCHANGED << input, readVars, clientVars, lifeVars, discVars >>

InitRuns ==
    /\ ReadIdle /\ ClientFresh(<<0, 0>>, 0) /\ NoPlc
    /\ \E n \in 0..MaxRunLen :
        \E elems \in [1..n -> RunElements] :
            \E order \in SortedOrders(1..n, [i \in 1..n |-> [Element |-> elems[i]]]) :
                input = RunInput(elems, order)
    /\ output = NoOutput

SpecRuns == InitRuns /\ [][ApplyContiguousRuns]_vars

\* The runs one after the other
RECURSIVE Concat(_)
Concat(runs) == IF runs = << >> THEN << >> ELSE Head(runs) \o Concat(Tail(runs))

\* The element number of a request index
ElemOf(i) == input.parsed[i].Element

\* C23: pcccContiguousRuns, given request indices sorted by element number,
\* returns runs that partition the input in order (no runs for an empty
\* input), where inside each run every element number is the previous one
\* plus 1, and each run is maximal: the first element of a run is never the
\* last element of the preceding run plus 1.
C23_RunsPartitionAndMaximal ==
    output.done =>
        /\ Concat(output.value) = input.sortedIndices
        /\ input.sortedIndices = << >> => output.value = << >>
        /\ \A r \in DOMAIN output.value :
            /\ output.value[r] # << >>
            /\ \A k \in 2..Len(output.value[r]) :
                    ElemOf(output.value[r][k]) = ElemOf(output.value[r][k - 1]) + 1
            /\ r > 1 =>
                    ElemOf(output.value[r][1])
                        # ElemOf(output.value[r - 1][Len(output.value[r - 1])]) + 1

\* Elements 0, 1, 4, 4 have been split into the runs (0, 1), (4) and (4)
C23_Witness ==
    /\ output.done /\ Len(input.sortedIndices) = 4
    /\ [k \in 1..4 |-> ElemOf(input.sortedIndices[k])] = <<0, 1, 4, 4>>
    /\ Len(output.value) = 3 /\ Len(output.value[1]) = 2

\* ------------------------------------------------------------------------
\* parseCipExecutePCCCResponse applied to replies, wrapped and cut short
\* ------------------------------------------------------------------------

CipSvcExecutePCCCReply == 203

\* A parser's results: the bytes, or the error
Parsed(data) == [ok |-> TRUE, data |-> data]
ParseError == [ok |-> FALSE, data |-> << >>]

\* A header taken to hold its additional status in bytes, not words
CipHeaderBytes(addlStatusSize) == 4 + addlStatusSize

\* 4 + int(addlStatusSize)*2: where the header of a CIP reply ends
CipHeaderLen(addlStatusSize) == 4 + addlStatusSize * 2

RECURSIVE parseCipExecutePCCCResponse(_)
parseCipExecutePCCCResponse(data) ==
    IF Len(data) < 4 THEN ParseError
    ELSE LET replyService == data[1]
             status == data[3]
             addlStatusSize == data[4]
         IN IF replyService = 210
            THEN IF status # 0 THEN ParseError
                 ELSE IF CipHeaderLen(addlStatusSize) >= Len(data) THEN ParseError
                 ELSE parseCipExecutePCCCResponse(
                        From(data, CipHeaderLen(addlStatusSize)))
            ELSE IF replyService # CipSvcExecutePCCCReply THEN ParseError
            ELSE IF status # 0 THEN ParseError
            ELSE IF CipHeaderLen(addlStatusSize) >= Len(data) THEN ParseError
            ELSE LET payload == From(data, CipHeaderLen(addlStatusSize))
                 IN IF Len(payload) < 7 THEN ParseError
                    ELSE IF Len(payload) < payload[1] THEN ParseError
                    ELSE Parsed(From(payload, payload[1]))

\* The most Unconnected_Send replies around a reply
MaxWraps == 2

\* The header of a CIP reply, with its additional status words
CipHeader(h) ==
    << h.service, 0, h.status, h.addl >> \o [i \in 1..(2 * h.addl) |-> 17]

\* The requester ID as the reply carries it: its length, then the rest of it
RequesterID(idLen) ==
    << idLen >> \o [i \in 1..(IF idLen > 1 THEN idLen - 1 ELSE 0) |-> 34]

WrapHeaders == [service : {210}, status : {0, 5}, addl : {0, 1}]

RECURSIVE WrapLists(_)
WrapLists(n) ==
    IF n = 0 THEN { << >> }
    ELSE WrapLists(n - 1)
            \cup { Append(l, h) : l \in { x \in WrapLists(n - 1) : Len(x) = n - 1 },
                                  h \in WrapHeaders }

InnerHeaders == [service : {203, 75, 204}, status : {0, 8}, addl : {0, 1}]

\* The PCCC replies carried: none, a header alone, a header and two bytes
PcccReplies == { << >>, << 79, 0, 1, 0 >>, << 79, 0, 1, 0, 5, 0 >> }

RECURSIVE WrapBytes(_)
WrapBytes(wraps) ==
    IF wraps = << >> THEN << >> ELSE CipHeader(Head(wraps)) \o WrapBytes(Tail(wraps))

\* A reply: the wrappers, the Execute PCCC reply inside, and the bytes that
\* arrive, which are the first n of the whole
ReplyInput(wraps, inner, idLen, pccc, n) ==
    [wraps |-> wraps, inner |-> inner, idLen |-> idLen, pccc |-> pccc,
     data |-> SubSeq(WrapBytes(wraps) \o CipHeader(inner) \o RequesterID(idLen) \o pccc,
                     1, n)]

ApplyParseCipResponse ==
    /\ ~output.done
    /\ output' = [done |-> TRUE, value |-> parseCipExecutePCCCResponse(input.data)]
    /\ UNCHANGED << input, readVars, clientVars, lifeVars, discVars >>

InitCip ==
    /\ ReadIdle /\ ClientFresh(<<0, 0>>, 0) /\ NoPlc
    /\ \E wraps \in WrapLists(MaxWraps), inner \in InnerHeaders,
          idLen \in {0, 3, 7, 9}, pccc \in PcccReplies :
        \E n \in 0..Len(WrapBytes(wraps) \o CipHeader(inner) \o RequesterID(idLen)
                            \o pccc) :
            input = ReplyInput(wraps, inner, idLen, pccc, n)
    /\ output = NoOutput

SpecCip == InitCip /\ [][ApplyParseCipResponse]_vars

\* Where the payload of the Execute PCCC reply begins in the whole reply
PayloadStart ==
    Len(WrapBytes(input.wraps)) + 4 + 2 * input.inner.addl

\* The reply is one the claim accepts: every wrapper has status 0, the reply
\* inside is an Execute PCCC reply with status 0, and at least 7 bytes and
\* the whole requester ID have arrived after its header
Acceptable ==
    /\ \A i \in DOMAIN input.wraps : input.wraps[i].status = 0
    /\ input.inner.service = 203 /\ input.inner.status = 0
    /\ Len(input.data) - PayloadStart >= 7
    /\ Len(input.data) - PayloadStart >= input.idLen

\* C25: parseCipExecutePCCCResponse returns the PCCC payload only when, after
\* unwrapping any number of nested Unconnected_Send replies (service 0xD2)
\* with status 0, the reply service is 0xCB, the CIP status is 0 and at least
\* the 7 bytes of a requester ID are present; the payload returned is what
\* follows the requester ID, whose length is its first byte. Any other reply
\* service, a non-zero status at either level, or a reply too short for the
\* header, the embedded reply or the requester ID gives an error and no
\* payload.
C25_PayloadOnlyFromGoodReply ==
    output.done =>
        /\ output.value.ok <=> Acceptable
        /\ output.value.ok =>
                output.value.data =
                    SubSeq(input.data, PayloadStart + input.idLen + 1, Len(input.data))
        /\ ~output.value.ok => output.value.data = << >>

\* A reply inside two Unconnected_Send replies has given its PCCC payload
C25_Witness ==
    /\ output.done /\ Len(input.wraps) = 2 /\ input.wraps[2].addl = 1
    /\ input.idLen = 7
    /\ output.value = Parsed(<< 79, 0, 1, 0, 5, 0 >>)

\* A wrapped reply cut inside its requester ID has given an error
CutInRequesterID ==
    /\ output.done /\ Len(input.wraps) = 1 /\ input.idLen = 7
    /\ \A i \in DOMAIN input.wraps : input.wraps[i].status = 0
    /\ input.inner.service = 203 /\ input.inner.status = 0
    /\ Len(input.data) - PayloadStart = 6
    /\ ~output.value.ok

\* ------------------------------------------------------------------------
\* parsePCCCReadResponse and parsePCCCWriteResponse applied to replies
\* ------------------------------------------------------------------------

CmdTypedReply == 79
StsSuccess == 0

HexDigits ==
    << "0", "1", "2", "3", "4", "5", "6", "7", "8", "9", "A", "B", "C", "D", "E", "F" >>

\* fmt's %02X of a byte
Hex2(b) == HexDigits[(b \div 16) + 1] \o HexDigits[(b % 16) + 1]

\* The status taken whole where the code masks it
StatusWhole(sts) == sts

\* sts & 0xF0
StatusClass(sts) == (sts \div 16) * 16

pcccStatusName(sts) ==
    CASE StatusClass(sts) = 0 -> "Success"
      [] StatusClass(sts) = 16 -> "Illegal Command or Format"
      [] StatusClass(sts) = 32 -> "Host has a Problem"
      [] StatusClass(sts) = 48 -> "Remote Node has a Problem"
      [] StatusClass(sts) = 64 -> "Hardware Fault"
      [] StatusClass(sts) = 80 -> "Address Problem"
      [] StatusClass(sts) = 96 -> "Function Not Allowed"
      [] StatusClass(sts) = 112 -> "Target Node Problem"
      [] StatusClass(sts) = 128 -> "Command Parameter Types Mismatch"
      [] StatusClass(sts) = 144 -> "Data Field Error"
      [] StatusClass(sts) = 160 -> "Access Denied"
      [] StatusClass(sts) = 176 -> "No Function Error"
      [] StatusClass(sts) = 192 -> "Data Conversion Error"
      [] StatusClass(sts) = 208 -> "Scanner Suspended Error"
      [] StatusClass(sts) = 224 -> "Not Compatible"
      [] StatusClass(sts) = 240 -> "Extended Status"
      [] OTHER -> "Unknown Status 0x" \o Hex2(sts)

pcccExtStatusName(extSts) ==
    CASE extSts = 1 -> "Not Allowed"
      [] extSts = 2 -> "Privilege Violation"
      [] extSts = 3 -> "Not Executed"
      [] extSts = 4 -> "Bad IOS Address"
      [] extSts = 5 -> "Parameter Out of Range"
      [] extSts = 6 -> "Address Field Too Short"
      [] extSts = 7 -> "Address Does Not Exist"
      [] extSts = 8 -> "Data Field Too Short"
      [] extSts = 9 -> "Insufficient Data Field"
      [] extSts = 12 -> "File Number Does Not Exist"
      [] extSts = 15 -> "Wrong File Type"
      [] extSts = 16 -> "Element Out of Range"
      [] extSts = 17 -> "Sub-Element Out of Range"
      [] extSts = 18 -> "File Access Denied"
      [] extSts = 19 -> "Access Denied"
      [] OTHER -> "Extended Status 0x" \o Hex2(extSts)

\* What an error of the reply parsers says
NoError == [kind |-> "none", name |-> "", sts |-> 0, extended |-> FALSE,
            extName |-> "", extSts |-> 0]
ShortError == [NoError EXCEPT !.kind = "too short"]
CommandError == [NoError EXCEPT !.kind = "unexpected command"]

PCCCStatusError(sts, extSts) ==
    IF StatusClass(sts) = 240 /\ extSts # 0
    THEN [kind |-> "status", name |-> pcccStatusName(sts), sts |-> sts,
          extended |-> TRUE, extName |-> pcccExtStatusName(extSts), extSts |-> extSts]
    ELSE [kind |-> "status", name |-> pcccStatusName(sts), sts |-> sts,
          extended |-> FALSE, extName |-> "", extSts |-> 0]

\* The status check both parsers make: the error, or NoError
ReplyError(data) ==
    IF Len(data) < 4 THEN ShortError
    ELSE IF data[1] # CmdTypedReply THEN CommandError
    ELSE IF data[2] # StsSuccess
    THEN PCCCStatusError(data[2],
                         IF StatusClass(data[2]) = 240 /\ Len(data) >= 5
                         THEN data[5] ELSE 0)
    ELSE NoError

parsePCCCReadResponse(data) ==
    IF ReplyError(data) # NoError
    THEN [ok |-> FALSE, data |-> << >>, err |-> ReplyError(data)]
    ELSE [ok |-> TRUE, data |-> From(data, 4), err |-> NoError]

parsePCCCWriteResponse(data) ==
    IF ReplyError(data) # NoError
    THEN [ok |-> FALSE, data |-> << >>, err |-> ReplyError(data)]
    ELSE [ok |-> TRUE, data |-> << >>, err |-> NoError]

\* The longest reply parsed
MaxReplyBytes == 6

\* A reply of n bytes: command, status, TNS, the byte after it, and a filler
ReplyBytes(cmd, sts, ext, n) ==
    SubSeq(<< cmd, sts, 1, 0, ext >> \o [i \in 1..(MaxReplyBytes - 5) |-> 9], 1, n)

ApplyParseReply ==
    /\ ~output.done
    /\ output' = [done |-> TRUE,
                  value |-> IF input.op = "read" THEN parsePCCCReadResponse(input.data)
                            ELSE parsePCCCWriteResponse(input.data)]
    /\ UNCHANGED << input, readVars, clientVars, lifeVars, discVars >>

InitReply ==
    /\ ReadIdle /\ ClientFresh(<<0, 0>>, 0) /\ NoPlc
    /\ \E op \in {"read", "write"}, cmd \in {79, 15, 70}, sts \in 0..255,
          ext \in {0, 7, 10, 16, 255}, n \in 0..MaxReplyBytes :
        input = [op |-> op, data |-> ReplyBytes(cmd, sts, ext, n)]
    /\ output = NoOutput

SpecReply == InitReply /\ [][ApplyParseReply]_vars

\* The categories of the status byte, by its high nibble
Categories ==
    << "Success", "Illegal Command or Format", "Host has a Problem",
       "Remote Node has a Problem", "Hardware Fault", "Address Problem",
       "Function Not Allowed", "Target Node Problem",
       "Command Parameter Types Mismatch", "Data Field Error", "Access Denied",
       "No Function Error", "Data Conversion Error", "Scanner Suspended Error",
       "Not Compatible", "Extended Status" >>

\* C26: a typed read or write reply is a success exactly when it has at least
\* 4 bytes, its command byte is 0x4F and its status byte is 0, a read then
\* returning the bytes after the 4-byte header; any non-zero status yields a
\* structured error whose category is selected by the high nibble of the
\* status, and the extended status is taken from the byte after the TNS only
\* when the high nibble is 0xF (sts=0xF0 with ext=0x10 gives Extended Status /
\* Element Out of Range).
C26_ReplyStatus ==
    output.done =>
        LET data == input.data
            wellFormed == Len(data) >= 4 /\ data[1] = 79
            err == output.value.err
        IN /\ output.value.ok <=> (wellFormed /\ data[2] = 0)
           /\ output.value.ok /\ input.op = "read"
                => output.value.data = SubSeq(data, 5, Len(data))
           /\ ~output.value.ok => output.value.data = << >>
           /\ wellFormed /\ data[2] # 0
                => /\ err.kind = "status"
                   /\ err.sts = data[2]
                   /\ err.name = Categories[(data[2] \div 16) + 1]
                   /\ err.extended
                        <=> (data[2] \div 16 = 15 /\ Len(data) >= 5 /\ data[5] # 0)
                   /\ err.extended => err.extSts = data[5]
           /\ wellFormed /\ data[2] = 240 /\ Len(data) >= 5 /\ data[5] = 16
                => err.name = "Extended Status" /\ err.extName = "Element Out of Range"
           /\ ~wellFormed => err.kind \in {"too short", "unexpected command"}

\* A read reply with status 0xF0 and extended status 0x10 has been parsed
C26_Witness ==
    /\ output.done /\ input.op = "read"
    /\ input.data = << 79, 240, 1, 0, 16, 9 >>
    /\ ~output.value.ok
    /\ output.value.err.name = "Extended Status"
    /\ output.value.err.extName = "Element Out of Range"

\* A read reply with status 0 has given the bytes after its header
ReadReplyData ==
    /\ output.done /\ input.op = "read"
    /\ input.data = << 79, 0, 1, 0, 7, 9 >>
    /\ output.value.ok /\ output.value.data = << 7, 9 >>

\* A write reply with status 0x50 and no further byte has given its category
WriteReplyAddressProblem ==
    /\ output.done /\ input.op = "write"
    /\ input.data = << 79, 80, 1, 0 >>
    /\ output.value.err.name = "Address Problem" /\ ~output.value.err.extended

\* ------------------------------------------------------------------------
\* ParseAddress applied to file specifiers with and without a file number
\* ------------------------------------------------------------------------

\* The type prefixes written: the fourteen of lookupFileType, one of them in
\* lower case too, and one that is none
Prefixes ==
    { <<"O">>, <<"I">>, <<"S">>, <<"B">>, <<"T">>, <<"C">>, <<"R">>, <<"N">>, <<"F">>,
      <<"A">>, <<"L">>, <<"S", "T">>, <<"M", "G">>, <<"P", "D">>, <<"n">>, <<"X">> }

\* The file numbers written: none, numbers up to and beyond 65535, signed
\* numbers and texts that are no number
FileNumerals ==
    { << >>, <<"0">>, <<"7">>, <<"0", "0", "7">>, <<"2", "5", "5">>,
      <<"6", "5", "5", "3", "5">>, <<"6", "5", "5", "3", "6">>, <<"7", "0", "0", "0", "0">>,
      <<"1", "3", "1", "0", "7", "9">>, <<"-", "1">>, <<"-", "7">>, <<"+", "7">>,
      <<"7", "x">>, <<"-">> }

\* ParseAddress of the prefix, the numeral and element 0
InitFileNumber ==
    /\ ReadIdle /\ ClientFresh(<<0, 0>>, 0) /\ NoPlc
    /\ \E prefix \in Prefixes, numeral \in FileNumerals :
        input = [prefix |-> prefix, numeral |-> numeral,
                 text |-> prefix \o numeral \o << ":", "0" >>]
    /\ output = NoOutput

SpecFileNumber == InitFileNumber /\ [][ApplyParseAddress]_vars

\* The default file number of the prefix written (-1: none)
PrefixDefault ==
    CASE ToUpper(input.prefix) = <<"O">> -> 0
      [] ToUpper(input.prefix) = <<"I">> -> 1
      [] ToUpper(input.prefix) = <<"S">> -> 2
      [] OTHER -> -1

\* The numeral is a decimal number, with or without a sign
IsNumber ==
    /\ input.numeral # << >>
    /\ LET body == IF input.numeral[1] \in {"+", "-"} THEN Tail(input.numeral)
                    ELSE input.numeral
       IN body # << >> /\ \A i \in DOMAIN body : IsDigit(body[i])

\* The number written
Written ==
    IF input.numeral[1] = "-" THEN 0 - DecVal(Tail(input.numeral))
    ELSE IF input.numeral[1] = "+" THEN DecVal(Tail(input.numeral))
    ELSE DecVal(input.numeral)

\* C29: for every address ParseAddress accepts, FileNumber equals the decimal
\* file number written after the type prefix, or the prefix default (O=0,
\* I=1, S=2) when none is written; a written file number that is negative or
\* larger than 65535 is rejected with an error rather than truncated to 16
\* bits or replaced by the default, and a prefix without default (B, T, C, R,
\* N, F, A, L, ST, MG, PD) with no file number is rejected.
C29_FileNumberAsWritten ==
    output.done =>
        /\ output.value.ok =>
                IF input.numeral = << >>
                THEN PrefixDefault >= 0 /\ output.value.FileNumber = PrefixDefault
                ELSE IsNumber /\ output.value.FileNumber = Written
        /\ IsNumber /\ (Written < 0 \/ Written > 65535) => ~output.value.ok

\* What the code does instead: a number above 65535 is accepted and cut to
\* its low 16 bits, and a negative number is taken as no number, so that it
\* is replaced by the default of O, I and S and rejected for the others
FileNumberAsCoded ==
    output.done =>
        /\ output.value.ok
                <=> /\ ToUpper(input.prefix) # <<"X">>
                    /\ input.numeral # << >> => IsNumber
                    /\ (input.numeral = << >> \/ Written < 0) => PrefixDefault >= 0
        /\ output.value.ok =>
                output.value.FileNumber =
                    IF input.numeral # << >> /\ Written >= 0 THEN Written % 65536
                    ELSE PrefixDefault

\* ParseAddress("N70000:0") has returned file number 4464
FileNumberTruncated ==
    /\ output.done /\ input.text = <<"N", "7", "0", "0", "0", "0", ":", "0">>
    /\ output.value.ok /\ output.value.FileNumber = 4464

\* ParseAddress("O-1:0") has returned file number 0
NegativeReplacedByDefault ==
    /\ output.done /\ input.text = <<"O", "-", "1", ":", "0">>
    /\ output.value.ok /\ output.value.FileNumber = 0

\* ParseAddress("N:0") has returned an error and ParseAddress("S:0") file 2
NoNumberWritten ==
    /\ output.done /\ input.numeral = << >>
    /\ input.prefix = <<"S">> /\ output.value.ok /\ output.value.FileNumber = 2
====
